---- MODULE Spec2Model ----
(***************************************************************************)
(* Model of opslib: the JSON template substitution engine                  *)
(* (opslib/icsutils/jsonsubs.py, class JsonSubs and class DefaultFunc).    *)
(*                                                                         *)
(* A JSON value is a record with the same five fields whatever its type,   *)
(* so that any two values can be compared:                                 *)
(*   t  the Python type: "none", "int", "str", "list" or "dict"            *)
(*   n  the number of an int                                               *)
(*   s  the characters of a str, a sequence of one-character strings       *)
(*   k  the keys of a dict (each a sequence of characters), in the order   *)
(*      in which the dict iterates (keys(), values(), items()); the        *)
(*      documents whose first key is read (type_of) list their keys in     *)
(*      the order CPython 2.7 iterates them                                *)
(*   c  the elements of a list, or the values of a dict in key order       *)
(***************************************************************************)
EXTENDS Integers, Sequences, FiniteSets, TLC

VARIABLES
    builtin,        \* engine -> its function registry   (self.builtin)
    instance_vars,  \* engine -> self.instance_vars
    default_vars,   \* engine -> self.default_vars
    op,             \* the last operation called on an engine
    eng,            \* the engine it was called on
    in_value,       \* its argument: the value / document
    in_instance,    \* its argument: the caller's instance scope object
    in_default,     \* its argument: the caller's default scope object
    out_status,     \* "ok", or the Python exception that escaped the call
    out_value,      \* the value it returned (None when it raised)
    out_kind,       \* type_of: the first component of what it returned
    out_instance,   \* the caller's instance scope object after the call
    out_default,    \* the caller's default scope object after the call
    prev_value,     \* "reexpand": the result of the first expansion, expanded again
    calls,          \* the callables invoked during the call, with their arguments
    threads,        \* thread -> the expansion it runs: position, arguments, result
    diff,           \* jsondiff: the last comparison, its arguments and what it gave
    retry,          \* misc.Retry: one call of a wrapped function, attempt by attempt
    aws             \* icsas.RawAS.update_group: one update, request by request

vars == <<builtin, instance_vars, default_vars, op, eng, in_value, in_instance,
          in_default, out_status, out_value, out_kind, out_instance, out_default,
          prev_value, calls, threads, diff, retry, aws>>

\* what the operations on an engine called by one client leave alone
aside == <<threads, diff, retry, aws>>

\* What the other libraries leave alone: everything of the substitution engine
jsonsubs == <<builtin, instance_vars, default_vars, op, eng, in_value, in_instance,
              in_default, out_status, out_value, out_kind, out_instance, out_default,
              prev_value, calls, threads>>

-----------------------------------------------------------------------------
(* JSON values *)

None == [t |-> "none", n |-> 0, s |-> <<>>, k |-> <<>>, c |-> <<>>]

Num(i) == [t |-> "int", n |-> i, s |-> <<>>, k |-> <<>>, c |-> <<>>]

Str(chars) == [t |-> "str", n |-> 0, s |-> chars, k |-> <<>>, c |-> <<>>]

List(elems) == [t |-> "list", n |-> 0, s |-> <<>>, k |-> <<>>, c |-> elems]

Dict(keys, values) == [t |-> "dict", n |-> 0, s |-> <<>>, k |-> keys, c |-> values]

\* a Python object that is none of the JSON types (a set, a tuple, a file)
Obj == [t |-> "object", n |-> 0, s |-> <<>>, k |-> <<>>, c |-> <<>>]

\* isinstance(value, basestring), isinstance(value, list), isinstance(value, dict)
IsStr(v) == v.t = "str"

IsList(v) == v.t = "list"

IsDict(v) == v.t = "dict"

\* Python's `not value`: None, 0, "", [] and {} are false
Falsy(v) ==
    \/ v.t = "none"
    \/ v.t = "int" /\ v.n = 0
    \/ v.t = "str" /\ v.s = <<>>
    \/ v.t = "list" /\ v.c = <<>>
    \/ v.t = "dict" /\ v.k = <<>>

\* `key in d` for a dict d
HasKey(d, key) == \E i \in 1..Len(d.k) : d.k[i] = key

\* d[key] for a dict d that has the key
Get(d, key) == d.c[CHOOSE i \in 1..Len(d.k) : d.k[i] = key]

\* d[key] = value on a dict: an existing key keeps its place, a new one is added
SetItem(d, key, value) ==
    IF HasKey(d, key)
    THEN Dict(d.k, [i \in 1..Len(d.c) |-> IF d.k[i] = key THEN value ELSE d.c[i]])
    ELSE Dict(Append(d.k, key), Append(d.c, value))

\* Python's == on dicts does not look at the order of the keys
RECURSIVE PyEq(_, _)
PyEq(a, b) ==
    IF a.t # b.t THEN FALSE
    ELSE IF a.t = "dict"
    THEN /\ Len(a.k) = Len(b.k)
         /\ \A i \in 1..Len(a.k) : HasKey(b, a.k[i]) /\ PyEq(a.c[i], Get(b, a.k[i]))
    ELSE IF a.t = "list"
    THEN /\ Len(a.c) = Len(b.c)
         /\ \A i \in 1..Len(a.c) : PyEq(a.c[i], b.c[i])
    ELSE a = b

-----------------------------------------------------------------------------
(* Pattern matcher: JsonSubs.pattern, search, type_of *)

Opens == {"<", "(", "{", "["}

Close(o) == CASE o = "<" -> ">" [] o = "(" -> ")" [] o = "{" -> "}" [] o = "[" -> "]"

\* the regex \$((<.*?>)|(\(.*?\))|({.*?})|(\[.*?\])) matches at position i of s and
\* ends at position j: a "$", an opening bracket, the shortest run of characters
\* other than a newline, and the closing bracket of the same shape
MatchFromTo(s, i, j) ==
    /\ i + 2 <= j /\ j <= Len(s)
    /\ s[i] = "$"
    /\ s[i + 1] \in Opens
    /\ s[j] = Close(s[i + 1])
    /\ \A m \in (i + 2)..(j - 1) : s[m] # Close(s[i + 1]) /\ s[m] # "\n"

MatchAt(s, i) == \E j \in 1..Len(s) : MatchFromTo(s, i, j)

\* re.search: the leftmost match; m.group(0), or "found" FALSE for None
Search(s) ==
    IF \E i \in 1..Len(s) : MatchAt(s, i)
    THEN LET i == CHOOSE x \in 1..Len(s) :
                      MatchAt(s, x) /\ \A y \in 1..(x - 1) : ~MatchAt(s, y)
             j == CHOOSE x \in 1..Len(s) : MatchFromTo(s, i, x)
         IN [found |-> TRUE, key |-> SubSeq(s, i, j), at |-> i]
    ELSE [found |-> FALSE, key |-> <<>>, at |-> 0]

\* '.' in key
HasDot(key) == \E i \in 1..Len(key) : key[i] = "."

\* key[2:-1]
Payload(key) == SubSeq(key, 3, Len(key) - 1)

\* What type_of returns: kind "None" with an empty key is the tuple (None, None);
\* kind "bare" is the function falling off the end of its if-chain, which returns a
\* bare None and no tuple.
TypeOfResult(kind, key) == [kind |-> kind, key |-> key]

NoneNone == TypeOfResult("None", <<>>)

Bare == TypeOfResult("bare", <<>>)

\* the if-chain of type_of on a string, m being self.search(value)
TypeOfStrMatch(m) ==
    IF ~m.found THEN NoneNone
    ELSE IF m.key[2] = "(" /\ m.key[Len(m.key)] = ")" /\ ~HasDot(m.key)
    THEN TypeOfResult("str", Payload(m.key))
    ELSE IF m.key[2] = "[" /\ m.key[Len(m.key)] = "]"
    THEN TypeOfResult("list", Payload(m.key))
    ELSE IF m.key[2] = "{" /\ m.key[Len(m.key)] = "}"
    THEN TypeOfResult("dict", Payload(m.key))
    ELSE IF m.key[2] = "<" /\ m.key[Len(m.key)] = ">" /\ HasDot(m.key)
    THEN TypeOfResult("map", Payload(m.key))
    ELSE Bare

\* the if-chain of type_of on a dict, m being self.search(value.keys()[0]);
\* value.keys()[0] and value.values()[0] are the first entry in iteration order
TypeOfDictMatch(d, m) ==
    IF ~m.found THEN NoneNone
    ELSE IF m.key[2] = "[" /\ m.key[Len(m.key)] = "]"
    THEN IF IsList(d.c[1]) THEN TypeOfResult("list", Payload(m.key)) ELSE Bare
    ELSE IF m.key[2] = "{" /\ m.key[Len(m.key)] = "}"
    THEN IF IsDict(d.c[1]) THEN TypeOfResult("dict", Payload(m.key)) ELSE Bare
    ELSE IF m.key[2] = "<" /\ m.key[Len(m.key)] = ">"
    THEN TypeOfResult("func", Payload(m.key))
    ELSE Bare

type_of(value) ==
    IF Falsy(value) THEN NoneNone
    ELSE IF IsStr(value) THEN TypeOfStrMatch(Search(value.s))
    ELSE IF IsDict(value) THEN TypeOfDictMatch(value, Search(value.k[1]))
    ELSE NoneNone

-----------------------------------------------------------------------------
(* The objects a call can reach.  h.iv and h.dv are the caller's instance and    *)
(* default scope objects (the arguments instance_vars and default_vars, passed   *)
(* by reference down every recursive call), h.builtin is self.builtin and        *)
(* h.calls lists the registered callables invoked so far, oldest first.          *)
(* Every method returns an outcome: st is "ok" or the name of the exception that *)
(* leaves it, v the returned value, h the objects after it.                      *)

Heap(iv, dv, siv, sdv, bi, cl) ==
    [iv |-> iv, dv |-> dv, siv |-> siv, sdv |-> sdv, builtin |-> bi, calls |-> cl]

R(st, v, h) == [st |-> st, v |-> v, h |-> h]

Raise(exc, h) == R(exc, None, h)

\* `key in container` followed, when true, by container[key], for a string key:
\* "found" and "absent" on a dict; None and numbers are not iterable; a str is
\* searched for the substring and a list for the element, and neither can be
\* indexed by a string
IsSubstring(key, s) ==
    \E i \in 1..(Len(s) + 1) : i + Len(key) - 1 <= Len(s) /\ SubSeq(s, i, i + Len(key) - 1) = key

Lookup(container, key) ==
    CASE container.t = "dict" -> IF HasKey(container, key) THEN "found" ELSE "absent"
      [] container.t = "str" -> IF IsSubstring(key, container.s) THEN "TypeError" ELSE "absent"
      [] container.t = "list" ->
            IF \E i \in 1..Len(container.c) : container.c[i] = Str(key)
            THEN "TypeError" ELSE "absent"
      [] OTHER -> "TypeError"

\* one element of the sequence given to dict.update: a key/value pair when it is a
\* sequence of length two whose first item is a string
PairStatus(e) ==
    CASE e.t \in {"none", "int"} -> "TypeError"
      [] e.t = "str" -> IF Len(e.s) = 2 THEN "ok" ELSE "ValueError"
      [] e.t = "dict" -> IF Len(e.k) = 2 THEN "ok" ELSE "ValueError"
      [] e.t = "list" ->
            IF Len(e.c) # 2 THEN "ValueError"
            ELSE IF e.c[1].t \in {"list", "dict"} THEN "TypeError"
            ELSE IF e.c[1].t = "str" THEN "ok"
            ELSE "NonStringKey"

PairKey(e) ==
    CASE e.t = "str" -> <<e.s[1]>> [] e.t = "dict" -> e.k[1] [] e.t = "list" -> e.c[1].s

PairValue(e) ==
    CASE e.t = "str" -> Str(<<e.s[2]>>) [] e.t = "dict" -> Str(e.k[2]) [] e.t = "list" -> e.c[2]

RECURSIVE UpdateFromDict(_, _, _)
UpdateFromDict(ret, d, i) ==
    IF i > Len(d.k) THEN ret
    ELSE UpdateFromDict(SetItem(ret, d.k[i], d.c[i]), d, i + 1)

RECURSIVE UpdateFromPairs(_, _, _)
UpdateFromPairs(ret, l, i) ==
    IF i > Len(l.c) THEN [st |-> "ok", v |-> ret]
    ELSE IF PairStatus(l.c[i]) # "ok" THEN [st |-> PairStatus(l.c[i]), v |-> ret]
    ELSE UpdateFromPairs(SetItem(ret, PairKey(l.c[i]), PairValue(l.c[i])), l, i + 1)

\* ret.update(x): the entries of x are written over those of ret
DictUpdate(ret, x) ==
    CASE x.t = "dict" -> [st |-> "ok", v |-> UpdateFromDict(ret, x, 1)]
      [] x.t = "list" -> UpdateFromPairs(ret, x, 1)
      [] x.t = "str" -> IF x.s = <<>> THEN [st |-> "ok", v |-> ret]
                        ELSE [st |-> "ValueError", v |-> ret]
      [] OTHER -> [st |-> "TypeError", v |-> ret]

\* ret.extend(x): the items x iterates over are added after those of ret
ListExtend(ret, x) ==
    CASE x.t = "list" -> [st |-> "ok", v |-> List(ret.c \o x.c)]
      [] x.t = "str" ->
            [st |-> "ok", v |-> List(ret.c \o [i \in 1..Len(x.s) |-> Str(<<x.s[i]>>)])]
      [] x.t = "dict" ->
            [st |-> "ok", v |-> List(ret.c \o [i \in 1..Len(x.k) |-> Str(x.k[i])])]
      [] OTHER -> [st |-> "TypeError", v |-> ret]

-----------------------------------------------------------------------------
(* Resolver: merge_str, merge_dict, merge_list *)

\* merge_str looking in the default scope before the instance scope
merge_str_default_first(key, h) ==
    IF Lookup(h.dv, key) = "TypeError" THEN Raise("TypeError", h)
    ELSE IF Lookup(h.dv, key) = "found" THEN R("ok", Get(h.dv, key), h)
    ELSE IF Lookup(h.iv, key) = "TypeError" THEN Raise("TypeError", h)
    ELSE IF Lookup(h.iv, key) = "found" THEN R("ok", Get(h.iv, key), h)
    ELSE R("ok", None, h)

\* merge_str indexing the default scope without the `in` test: KeyError when absent
merge_str_unchecked(key, h) ==
    IF Lookup(h.iv, key) = "TypeError" THEN Raise("TypeError", h)
    ELSE IF Lookup(h.iv, key) = "found" THEN R("ok", Get(h.iv, key), h)
    ELSE IF Lookup(h.dv, key) = "TypeError" THEN Raise("TypeError", h)
    ELSE IF Lookup(h.dv, key) = "found" THEN R("ok", Get(h.dv, key), h)
    ELSE Raise("KeyError", h)

merge_str(key, h) ==
    IF Lookup(h.iv, key) = "TypeError" THEN Raise("TypeError", h)
    ELSE IF Lookup(h.iv, key) = "found" THEN R("ok", Get(h.iv, key), h)
    ELSE IF Lookup(h.dv, key) = "TypeError" THEN Raise("TypeError", h)
    ELSE IF Lookup(h.dv, key) = "found" THEN R("ok", Get(h.dv, key), h)
    ELSE R("ok", None, h)

\* The outcome r of a call is computed once and then used: Only({F(r) : r \in {call}})
\* is F(call).
Only(S) == CHOOSE y \in S : TRUE

\* what a method hands back when its local `ret` was built without an exception
Outcome(r, h) == IF r.st # "ok" THEN Raise(r.st, h) ELSE R("ok", r.v, h)

Started(ret) == [st |-> "ok", v |-> ret]

\* `if self.type_of(scope[key])[0] is None: <merged>`, kind being what type_of gave
IfPlain(kind, ret, merged) ==
    IF kind = "bare" THEN [st |-> "TypeError", v |-> ret]
    ELSE IF kind = "None" THEN merged
    ELSE Started(ret)

\* `if key in scope: if self.type_of(scope[key])[0] is None: ret.update(scope[key])`
\* of merge_dict on the local ret, prev being the outcome of the statements before
MergeDictFrom(prev, scope, key) ==
    IF prev.st # "ok" THEN prev
    ELSE IF Lookup(scope, key) = "found"
    THEN IfPlain(type_of(Get(scope, key)).kind, prev.v, DictUpdate(prev.v, Get(scope, key)))
    ELSE [st |-> IF Lookup(scope, key) = "absent" THEN "ok" ELSE "TypeError", v |-> prev.v]

\* ret = {} is a new object: neither scope is written
merge_dict(key, h) ==
    Outcome(MergeDictFrom(MergeDictFrom(Started(Dict(<<>>, <<>>)), h.iv, key), h.dv, key), h)

MergeListFrom(prev, scope, key) ==
    IF prev.st # "ok" THEN prev
    ELSE IF Lookup(scope, key) = "found"
    THEN IfPlain(type_of(Get(scope, key)).kind, prev.v, ListExtend(prev.v, Get(scope, key)))
    ELSE [st |-> IF Lookup(scope, key) = "absent" THEN "ok" ELSE "TypeError", v |-> prev.v]

\* merge_list extending the instance scope's own list (ret = instance_vars[key])
\* instead of a new one
merge_list_in_place(key, h) ==
    Only({IF r.st = "ok" /\ IsDict(h.iv) /\ HasKey(h.iv, key) /\ IsList(Get(h.iv, key))
          THEN R("ok", r.v, [h EXCEPT !.iv = SetItem(h.iv, key, r.v)])
          ELSE Outcome(r, h) :
          r \in {MergeListFrom(MergeListFrom(Started(List(<<>>)), h.iv, key), h.dv, key)}})

\* merge_list taking the default scope's elements first
merge_list_default_first(key, h) ==
    Outcome(MergeListFrom(MergeListFrom(Started(List(<<>>)), h.dv, key), h.iv, key), h)

\* ret = [] is a new object: neither scope is written
merge_list(key, h) ==
    Outcome(MergeListFrom(MergeListFrom(Started(List(<<>>)), h.iv, key), h.dv, key), h)

-----------------------------------------------------------------------------
(* Characters *)

\* the printable ASCII characters in code order: Ascii[i] has code i + 31 (the
\* grave accent, code 96, cannot be written in a string here and no document uses it)
Ascii ==
    <<
    " ", "!", "\"", "#", "$", "%", "&", "'", "(", ")", "*", "+", ",", "-", ".", "/",
    "0", "1", "2", "3", "4", "5", "6", "7", "8", "9", ":", ";", "<", "=", ">", "?",
    "@", "A", "B", "C", "D", "E", "F", "G", "H", "I", "J", "K", "L", "M", "N", "O",
    "P", "Q", "R", "S", "T", "U", "V", "W", "X", "Y", "Z", "[", "\\", "]", "^", "_",
    "GRAVE", "a", "b", "c", "d", "e", "f", "g", "h", "i", "j", "k", "l", "m", "n", "o",
    "p", "q", "r", "s", "t", "u", "v", "w", "x", "y", "z", "{", "|", "}", "~" >>

Ord(ch) == 31 + (CHOOSE i \in 1..Len(Ascii) : Ascii[i] = ch)

\* the alphabet of base64.b64encode
B64Alphabet ==
    <<
    "A", "B", "C", "D", "E", "F", "G", "H", "I", "J", "K", "L", "M", "N", "O", "P",
    "Q", "R", "S", "T", "U", "V", "W", "X", "Y", "Z", "a", "b", "c", "d", "e", "f",
    "g", "h", "i", "j", "k", "l", "m", "n", "o", "p", "q", "r", "s", "t", "u", "v",
    "w", "x", "y", "z", "0", "1", "2", "3", "4", "5", "6", "7", "8", "9", "+", "/" >>

Digits == {"0", "1", "2", "3", "4", "5", "6", "7", "8", "9"}

DigitValue(ch) == Ord(ch) - 48

IdentStart == {Ascii[i] : i \in {x \in 1..Len(Ascii) :
                  \/ x + 31 \in 65..90 \/ x + 31 \in 97..122 \/ x + 31 = 95}}

\* str.replace(old, new): every occurrence of old, left to right, not overlapping
RECURSIVE Replace(_, _, _)
Replace(s, old, new) ==
    IF Len(s) < Len(old) \/ old = <<>> THEN s
    ELSE IF SubSeq(s, 1, Len(old)) = old
    THEN new \o Replace(SubSeq(s, Len(old) + 1, Len(s)), old, new)
    ELSE <<s[1]>> \o Replace(Tail(s), old, new)

\* seq[idx] of Python for an int idx: a negative index counts from the end
PyIndexOk(len, idx) == -len <= idx /\ idx < len

PyIndex(len, idx) == IF idx < 0 THEN len + idx + 1 ELSE idx + 1

\* int(s) for a str s: an optional sign and decimal digits
IsIntLiteral(s) ==
    LET body == IF s # <<>> /\ s[1] \in {"-", "+"} THEN Tail(s) ELSE s
    IN body # <<>> /\ \A i \in 1..Len(body) : body[i] \in Digits

RECURSIVE DigitsValue(_)
DigitsValue(s) ==
    IF s = <<>> THEN 0
    ELSE 10 * DigitsValue(SubSeq(s, 1, Len(s) - 1)) + DigitValue(s[Len(s)])

ParseInt(s) ==
    IF s[1] = "-" THEN 0 - DigitsValue(Tail(s))
    ELSE IF s[1] = "+" THEN DigitsValue(Tail(s))
    ELSE DigitsValue(s)

-----------------------------------------------------------------------------
(* Built-in functions: class DefaultFunc, JsonSubs.func_mapping *)

\* delimiter.join(params) for a list of strings
RECURSIVE JoinChars(_, _, _)
JoinChars(delimiter, elems, i) ==
    IF i > Len(elems) THEN <<>>
    ELSE IF i = Len(elems) THEN elems[i].s
    ELSE elems[i].s \o delimiter \o JoinChars(delimiter, elems, i + 1)

func_join(delimiter, params) ==
    IF IsList(params) /\ \A i \in 1..Len(params.c) : IsStr(params.c[i])
    THEN IF IsStr(delimiter)
         THEN [st |-> "ok", v |-> Str(JoinChars(delimiter.s, params.c, 1))]
         ELSE [st |-> "AttributeError", v |-> None]
    ELSE [st |-> "IcsException", v |-> None]

\* base64.b64encode: three bytes give four characters, "=" pads the last group
RECURSIVE B64Encode(_)
B64Encode(s) ==
    IF s = <<>> THEN <<>>
    ELSE LET b1 == Ord(s[1])
             b2 == IF Len(s) >= 2 THEN Ord(s[2]) ELSE 0
             b3 == IF Len(s) >= 3 THEN Ord(s[3]) ELSE 0
             c1 == B64Alphabet[(b1 \div 4) + 1]
             c2 == B64Alphabet[((b1 % 4) * 16 + (b2 \div 16)) + 1]
             c3 == IF Len(s) >= 2 THEN B64Alphabet[((b2 % 16) * 4 + (b3 \div 64)) + 1] ELSE "="
             c4 == IF Len(s) >= 3 THEN B64Alphabet[(b3 % 64) + 1] ELSE "="
         IN <<c1, c2, c3, c4>> \o (IF Len(s) > 3 THEN B64Encode(SubSeq(s, 4, Len(s))) ELSE <<>>)

func_base64(params) ==
    IF IsStr(params) THEN [st |-> "ok", v |-> Str(B64Encode(params.s))]
    ELSE [st |-> "IcsException", v |-> None]

\* params[idx] for an int idx
SelectAt(params, idx) ==
    IF PyIndexOk(Len(params.c), idx)
    THEN [st |-> "ok", v |-> params.c[PyIndex(Len(params.c), idx)]]
    ELSE [st |-> "IndexError", v |-> None]

func_select(index, params) ==
    IF IsList(params) /\ index.t = "int" THEN SelectAt(params, index.n - 1)
    ELSE IF IsList(params) /\ IsStr(index)
    THEN IF IsIntLiteral(index.s) THEN SelectAt(params, ParseInt(index.s) - 1)
         ELSE [st |-> "ValueError", v |-> None]
    ELSE [st |-> "IcsException", v |-> None]

CircleSelectAt(params, idx) ==
    IF Len(params.c) = 0 THEN [st |-> "ZeroDivisionError", v |-> None]
    ELSE [st |-> "ok", v |-> params.c[((idx - 1) % Len(params.c)) + 1]]

\* func_circle_select indexing as func_select does, without the modulo
func_circle_select_no_wrap(index, params) == func_select(index, params)

func_circle_select(index, params) ==
    IF IsList(params) /\ index.t = "int" THEN CircleSelectAt(params, index.n)
    ELSE IF IsList(params) /\ IsStr(index)
    THEN IF IsIntLiteral(index.s) THEN CircleSelectAt(params, ParseInt(index.s))
         ELSE [st |-> "ValueError", v |-> None]
    ELSE [st |-> "IcsException", v |-> None]

\* x[y] as reduce applies it in func_mapping
Subscript(x, y) ==
    CASE x.t = "dict" /\ y.t = "str" ->
            IF HasKey(x, y.s) THEN [st |-> "ok", v |-> Get(x, y.s)]
            ELSE [st |-> "KeyError", v |-> None]
      [] x.t = "dict" /\ y.t \in {"int", "none"} -> [st |-> "KeyError", v |-> None]
      [] x.t = "list" /\ y.t = "int" ->
            IF PyIndexOk(Len(x.c), y.n)
            THEN [st |-> "ok", v |-> x.c[PyIndex(Len(x.c), y.n)]]
            ELSE [st |-> "IndexError", v |-> None]
      [] x.t = "str" /\ y.t = "int" ->
            IF PyIndexOk(Len(x.s), y.n)
            THEN [st |-> "ok", v |-> Str(<<x.s[PyIndex(Len(x.s), y.n)]>>)]
            ELSE [st |-> "IndexError", v |-> None]
      [] OTHER -> [st |-> "TypeError", v |-> None]

RECURSIVE Reduce(_, _, _)
Reduce(x, args, i) ==
    IF i > Len(args) THEN [st |-> "ok", v |-> x]
    ELSE IF Subscript(x, args[i]).st # "ok" THEN Subscript(x, args[i])
    ELSE Reduce(Subscript(x, args[i]).v, args, i + 1)

\* func_mapping raising its error when neither scope holds map_name
func_mapping_strict(self_iv, self_dv, map_name, args) ==
    IF IsStr(map_name)
    THEN IF Lookup(self_dv, map_name.s) = "TypeError" THEN [st |-> "TypeError", v |-> None]
         ELSE IF Lookup(self_dv, map_name.s) = "found"
         THEN IF Reduce(Get(self_dv, map_name.s), args, 1).st = "ok"
              THEN Reduce(Get(self_dv, map_name.s), args, 1)
              ELSE [st |-> "IcsException", v |-> None]
         ELSE IF Lookup(self_iv, map_name.s) = "TypeError" THEN [st |-> "TypeError", v |-> None]
         ELSE IF Lookup(self_iv, map_name.s) = "found"
         THEN IF Reduce(Get(self_iv, map_name.s), args, 1).st = "ok"
              THEN Reduce(Get(self_iv, map_name.s), args, 1)
              ELSE [st |-> "IcsException", v |-> None]
         ELSE [st |-> "IcsException", v |-> None]
    ELSE [st |-> "IcsException", v |-> None]

\* self_iv and self_dv are self.instance_vars and self.default_vars
func_mapping(self_iv, self_dv, map_name, args) ==
    IF IsStr(map_name)
    THEN IF Lookup(self_dv, map_name.s) = "TypeError" THEN [st |-> "TypeError", v |-> None]
         ELSE IF Lookup(self_dv, map_name.s) = "found"
         THEN IF Reduce(Get(self_dv, map_name.s), args, 1).st = "ok"
              THEN Reduce(Get(self_dv, map_name.s), args, 1)
              ELSE [st |-> "IcsException", v |-> None]
         ELSE IF Lookup(self_iv, map_name.s) = "TypeError" THEN [st |-> "TypeError", v |-> None]
         ELSE IF Lookup(self_iv, map_name.s) = "found"
         THEN IF Reduce(Get(self_iv, map_name.s), args, 1).st = "ok"
              THEN Reduce(Get(self_iv, map_name.s), args, 1)
              ELSE [st |-> "IcsException", v |-> None]
         ELSE [st |-> "ok", v |-> None]
    ELSE [st |-> "IcsException", v |-> None]

\* misc.dict_merge(a, b): b's entries over a deep copy of a, dicts merged entry by
\* entry; a must take item assignment as soon as b has an entry
RECURSIVE dict_merge(_, _), DictMergeFrom(_, _, _)
dict_merge(a, b) ==
    IF ~IsDict(b) THEN [st |-> "ok", v |-> b] ELSE DictMergeFrom(a, b, 1)

DictMergeFrom(result, b, i) ==
    IF i > Len(b.k) THEN [st |-> "ok", v |-> result]
    ELSE IF ~IsDict(result) THEN [st |-> "TypeError", v |-> None]
    ELSE IF HasKey(result, b.k[i]) /\ IsDict(Get(result, b.k[i]))
    THEN IF dict_merge(Get(result, b.k[i]), b.c[i]).st # "ok"
         THEN dict_merge(Get(result, b.k[i]), b.c[i])
         ELSE DictMergeFrom(SetItem(result, b.k[i], dict_merge(Get(result, b.k[i]), b.c[i]).v),
                            b, i + 1)
    ELSE DictMergeFrom(SetItem(result, b.k[i], b.c[i]), b, i + 1)

\* The files func_include can open, as json.load reads them: path -> content.
\* Any other path does not exist.
Files ==
    Dict(<<<<"a", ".", "j", "s", "o", "n">>, <<"b", ".", "j", "s", "o", "n">>>>,
         <<Dict(<<<<"k">>, <<"m">>>>, <<Str(<<"a">>), Dict(<< <<"x">> >>, <<Num(1)>>)>>),
           Dict(<<<<"k">>, <<"m">>>>, <<Str(<<"b">>), Dict(<< <<"y">> >>, <<Num(2)>>)>>)>>)

RECURSIVE IncludeFrom(_, _, _)
IncludeFrom(text, args, i) ==
    IF i > Len(args) THEN [st |-> "ok", v |-> text]
    ELSE IF ~IsStr(args[i]) THEN [st |-> "IcsException", v |-> None]
    ELSE IF ~HasKey(Files, args[i].s) THEN [st |-> "IOError", v |-> None]
    ELSE IF dict_merge(text, Get(Files, args[i].s)).st # "ok"
    THEN dict_merge(text, Get(Files, args[i].s))
    ELSE IncludeFrom(dict_merge(text, Get(Files, args[i].s)).v, args, i + 1)

func_include(args) == IncludeFrom(Dict(<<>>, <<>>), args, 1)

\* a callable a caller registers, def echo(*args, **kwargs): it returns the keyword
\* arguments it was given when there are any, and else the list of the positional
\* ones
user_echo(mode, params) ==
    [st |-> "ok", v |-> IF mode = "kw" THEN (IF Falsy(params) THEN List(<<>>) ELSE params)
                        ELSE IF mode = "pos" THEN params
                        ELSE IF mode = "single" THEN List(<<params>>)
                        ELSE List(<<>>)]

\* the named parameters of each callable, before any *args
ParamNames(fid) ==
    CASE fid = "func_join" -> <<<<"d", "e", "l", "i", "m", "i", "t", "e", "r">>, <<"p", "a", "r", "a", "m", "s">>>>
      [] fid \in {"func_select", "func_circle_select"} -> <<<<"i", "n", "d", "e", "x">>, <<"p", "a", "r", "a", "m", "s">>>>
      [] fid = "func_base64" -> << <<"p", "a", "r", "a", "m", "s">> >>
      [] fid = "func_mapping" -> << <<"m", "a", "p", "_", "n", "a", "m", "e">> >>
      [] OTHER -> <<>>

HasVarArgs(fid) == fid \in {"func_include", "func_mapping"}

\* tplsub_func handing a list over as the single argument
CallMode_list_as_single(params) ==
    IF IsDict(params) THEN "kw"
    ELSE IF Falsy(params) THEN "none"
    ELSE "single"

\* how tplsub_func passes params: f(**params), f(*params), f() or f(params)
CallMode(params) ==
    IF IsDict(params) THEN "kw"
    ELSE IF IsList(params) THEN "pos"
    ELSE IF Falsy(params) THEN "none"
    ELSE "single"

\* the positional arguments the callable's parameters are bound to; Python raises
\* TypeError when the call does not fit the signature
BindOk(fid, mode, params) ==
    LET names == ParamNames(fid)
    IN IF mode = "kw"
       THEN /\ Len(params.k) = Len(names)
            /\ \A i \in 1..Len(names) : HasKey(params, names[i])
       ELSE LET n == IF mode = "pos" THEN Len(params.c) ELSE IF mode = "single" THEN 1 ELSE 0
            IN IF HasVarArgs(fid) THEN n >= Len(names) ELSE n = Len(names)

BoundArgs(fid, mode, params) ==
    LET names == ParamNames(fid)
    IN IF mode = "kw" THEN [i \in 1..Len(names) |-> Get(params, names[i])]
       ELSE IF mode = "pos" THEN params.c
       ELSE IF mode = "single" THEN <<params>>
       ELSE <<>>

\* self.builtin[func](...) with the callable fid
Invoke(fid, mode, params, self_iv, self_dv) ==
    IF fid = "user_echo" THEN user_echo(mode, params)
    ELSE IF ~BindOk(fid, mode, params) THEN [st |-> "TypeError", v |-> None]
    ELSE LET a == BoundArgs(fid, mode, params)
         IN CASE fid = "func_join" -> func_join(a[1], a[2])
              [] fid = "func_base64" -> func_base64(a[1])
              [] fid = "func_select" -> func_select(a[1], a[2])
              [] fid = "func_circle_select" -> func_circle_select(a[1], a[2])
              [] fid = "func_include" -> func_include(a)
              [] fid = "func_mapping" -> func_mapping(self_iv, self_dv, a[1], Tail(a))

\* the names of the built-ins, as they are written in a $<...> token
NameJoin == <<"J", "o", "i", "n">>

NameBase64 == <<"B", "a", "s", "e", "6", "4">>

NameSelect == <<"S", "e", "l", "e", "c", "t">>

NameCSelect == <<"C", "S", "e", "l", "e", "c", "t">>

NameInclude == <<"I", "n", "c", "l", "u", "d", "e">>

NameMapping == <<"M", "a", "p", "p", "i", "n", "g">>

\* self.default_builtin of __init__, as the pairs (name, callable)
default_builtin ==
    {<<NameJoin, "func_join">>, <<NameBase64, "func_base64">>,
     <<NameSelect, "func_select">>, <<NameCSelect, "func_circle_select">>,
     <<NameInclude, "func_include">>, <<NameMapping, "func_mapping">>}

\* `func in self.builtin` and self.builtin[func] on a registry of such pairs
Registered(bi, func) == \E p \in bi : p[1] = func

Callable(bi, func) == (CHOOSE p \in bi : p[1] = func)[2]

-----------------------------------------------------------------------------
(* jmespath, for the dotted paths merge_map gives it: compile(key) parses      *)
(* identifier ("." identifier)*, and search follows the fields, giving None    *)
(* as soon as the value at hand is no dict or lacks the field.                 *)

RECURSIVE SplitDots(_)
SplitDots(s) ==
    IF \E i \in 1..Len(s) : s[i] = "."
    THEN LET i == CHOOSE x \in 1..Len(s) : s[x] = "." /\ \A y \in 1..(x - 1) : s[y] # "."
         IN <<SubSeq(s, 1, i - 1)>> \o SplitDots(SubSeq(s, i + 1, Len(s)))
    ELSE <<s>>

IsIdentifier(seg) ==
    /\ seg # <<>>
    /\ seg[1] \in IdentStart
    /\ \A i \in 1..Len(seg) : seg[i] \in IdentStart \cup Digits

PathParses(key) == \A i \in 1..Len(SplitDots(key)) : IsIdentifier(SplitDots(key)[i])

RECURSIVE PathSearch(_, _, _)
PathSearch(data, segs, i) ==
    IF i > Len(segs) THEN data
    ELSE IF IsDict(data) /\ HasKey(data, segs[i]) THEN PathSearch(Get(data, segs[i]), segs, i + 1)
    ELSE None

-----------------------------------------------------------------------------
(* Expander.  depth is the number of Python frames left before the            *)
(* interpreter's recursion limit raises RuntimeError.                         *)

\* format_str leaving the token where it is
format_str_unchanged(str_value, new_str) ==
    IF Search(str_value).found THEN Str(str_value) ELSE None

\* format_str returning the new text in place of the whole string
format_str_whole(str_value, new_str) ==
    IF Search(str_value).found THEN Str(new_str) ELSE None

\* format_str for a str_value in which search finds a token
format_str(str_value, new_str) ==
    IF Search(str_value).found
    THEN Str(Replace(str_value, Search(str_value).key, new_str))
    ELSE None

RECURSIVE tplsub(_, _, _), tplsub_str(_, _, _), update_str(_, _, _, _),
          tplsub_dict(_, _, _), TplsubItems(_, _, _, _, _), tplsub_list(_, _, _),
          TplsubElements(_, _, _, _, _), tplsub_func(_, _, _, _), do_sub(_, _, _),
          merge_map(_, _, _)

\* merge_map raising the engine's error when the path is found in neither scope
merge_map_raising(key, h, depth) ==
    IF depth = 0 THEN Raise("RuntimeError", h)
    ELSE IF type_of(key).kind = "bare" THEN Raise("TypeError", h)
    ELSE IF type_of(key).kind = "None"
    THEN IF ~IsStr(key) THEN Raise("TypeError", h)
         ELSE IF ~PathParses(key.s) THEN Raise("ParseError", h)
         ELSE IF ~Falsy(PathSearch(h.iv, SplitDots(key.s), 1))
         THEN R("ok", PathSearch(h.iv, SplitDots(key.s), 1), h)
         ELSE IF ~Falsy(PathSearch(h.dv, SplitDots(key.s), 1))
         THEN R("ok", PathSearch(h.dv, SplitDots(key.s), 1), h)
         ELSE Raise("IcsException", h)
    ELSE Only({IF r.st # "ok" THEN r ELSE merge_map(r.v, r.h, depth - 1) :
               r \in {tplsub(key, h, depth - 1)}})

\* merge_map searching the default scope before the instance scope
merge_map_default_first(key, h, depth) ==
    IF depth = 0 THEN Raise("RuntimeError", h)
    ELSE IF type_of(key).kind = "bare" THEN Raise("TypeError", h)
    ELSE IF type_of(key).kind = "None"
    THEN IF ~IsStr(key) THEN Raise("TypeError", h)
         ELSE IF ~PathParses(key.s) THEN Raise("ParseError", h)
         ELSE IF ~Falsy(PathSearch(h.dv, SplitDots(key.s), 1))
         THEN R("ok", PathSearch(h.dv, SplitDots(key.s), 1), h)
         ELSE IF ~Falsy(PathSearch(h.iv, SplitDots(key.s), 1))
         THEN R("ok", PathSearch(h.iv, SplitDots(key.s), 1), h)
         ELSE R("ok", None, h)
    ELSE Only({IF r.st # "ok" THEN r ELSE merge_map(r.v, r.h, depth - 1) :
               r \in {tplsub(key, h, depth - 1)}})

merge_map(key, h, depth) ==
    IF depth = 0 THEN Raise("RuntimeError", h)
    ELSE IF type_of(key).kind = "bare" THEN Raise("TypeError", h)
    ELSE IF type_of(key).kind = "None"
    THEN IF ~IsStr(key) THEN Raise("TypeError", h)
         ELSE IF ~PathParses(key.s) THEN Raise("ParseError", h)
         ELSE IF ~Falsy(PathSearch(h.iv, SplitDots(key.s), 1))
         THEN R("ok", PathSearch(h.iv, SplitDots(key.s), 1), h)
         ELSE IF ~Falsy(PathSearch(h.dv, SplitDots(key.s), 1))
         THEN R("ok", PathSearch(h.dv, SplitDots(key.s), 1), h)
         ELSE R("ok", None, h)
    ELSE Only({IF r.st # "ok" THEN r ELSE merge_map(r.v, r.h, depth - 1) :
               r \in {tplsub(key, h, depth - 1)}})

do_sub(value, h, depth) ==
    LET ty == type_of(value)
    IN CASE ty.kind = "bare" -> Raise("TypeError", h)
         [] ty.kind = "None" -> R("ok", value, h)
         [] ty.kind = "str" -> merge_str(ty.key, h)
         [] ty.kind = "list" -> merge_list(ty.key, h)
         [] ty.kind = "dict" -> merge_dict(ty.key, h)
         [] ty.kind = "map" -> merge_map(Str(ty.key), h, depth)
         [] OTHER -> R("ok", None, h)

\* tplsub_func once params is known: p is the outcome of self.tplsub(value, ...)
CallWith(func, p) ==
    LET fid == Callable(p.h.builtin, func)
        mode == CallMode(p.v)
        h2 == [p.h EXCEPT !.calls = Append(@, [func |-> func, fid |-> fid,
                                                mode |-> mode, params |-> p.v])]
    IN IF p.st # "ok" THEN p
       ELSE IF Invoke(fid, mode, p.v, h2.siv, h2.sdv).st # "ok" THEN Raise("IcsException", h2)
       ELSE R("ok", Invoke(fid, mode, p.v, h2.siv, h2.sdv).v, h2)

\* tplsub_func expanding the argument before it looks the function up
tplsub_func_args_first(func, value, h, depth) ==
    Only({IF p.st # "ok" THEN p
          ELSE IF Registered(p.h.builtin, func) THEN CallWith(func, p)
          ELSE Raise("IcsException", p.h) :
          p \in {tplsub(value, h, depth - 1)}})

tplsub_func(func, value, h, depth) ==
    IF Registered(h.builtin, func)
    THEN Only({CallWith(func, p) : p \in {tplsub(value, h, depth - 1)}})
    ELSE Raise("IcsException", h)

\* the loop of tplsub_dict from the i-th item on
TplsubItems(d, i, results, h, depth) ==
    IF i > Len(d.k) THEN R("ok", results, h)
    ELSE Only({IF r.st # "ok" THEN r
               ELSE TplsubItems(d, i + 1, SetItem(results, d.k[i], r.v), r.h, depth) :
               r \in {tplsub(d.c[i], h, depth - 1)}})

tplsub_dict(dict_value, h, depth) ==
    LET ty == type_of(dict_value)
    IN IF ty.kind = "bare" THEN Raise("TypeError", h)
       ELSE IF ty.kind = "func" THEN tplsub_func(ty.key, dict_value.c[1], h, depth)
       ELSE TplsubItems(dict_value, 1, Dict(<<>>, <<>>), h, depth)

\* the loop of tplsub_list from the i-th element on
TplsubElements(l, i, results, h, depth) ==
    IF i > Len(l.c) THEN R("ok", results, h)
    ELSE Only({IF r.st # "ok" THEN r
               ELSE TplsubElements(l, i + 1, List(Append(results.c, r.v)), r.h, depth) :
               r \in {tplsub(l.c[i], h, depth - 1)}})

tplsub_list(list_value, h, depth) == TplsubElements(list_value, 1, List(<<>>), h, depth)

update_str(str_value, new_str, h, depth) ==
    IF depth = 0 THEN Raise("RuntimeError", h)
    ELSE IF IsStr(new_str)
    THEN tplsub_str(format_str(str_value.s, new_str.s), h, depth - 1)
    ELSE IF type_of(new_str).kind = "bare" THEN Raise("TypeError", h)
    ELSE IF type_of(new_str).kind = "None" THEN R("ok", new_str, h)
    ELSE Only({IF r.st # "ok" THEN r ELSE update_str(str_value, r.v, r.h, depth - 1) :
               r \in {tplsub(new_str, h, depth - 1)}})

tplsub_str(str_value, h, depth) ==
    IF depth = 0 THEN Raise("RuntimeError", h)
    ELSE IF type_of(str_value).kind = "bare" THEN Raise("TypeError", h)
    ELSE IF type_of(str_value).kind = "None" THEN R("ok", str_value, h)
    ELSE Only({IF r.st # "ok" THEN r ELSE update_str(str_value, r.v, r.h, depth - 1) :
               r \in {do_sub(str_value, h, depth - 1)}})

tplsub(value, h, depth) ==
    LET h1 == IF h.iv = None /\ h.dv = None
              THEN [h EXCEPT !.iv = value, !.siv = value, !.sdv = h.dv]
              ELSE [h EXCEPT !.siv = h.iv, !.sdv = h.dv]
    IN IF depth = 0 THEN Raise("RuntimeError", h)
       ELSE IF IsDict(value) THEN tplsub_dict(value, h1, depth - 1)
       ELSE IF IsList(value) THEN tplsub_list(value, h1, depth - 1)
       ELSE IF IsStr(value) THEN tplsub_str(value, h1, depth - 1)
       ELSE IF value.t \in {"int", "none"} THEN R("ok", value, h1)
       ELSE Raise("IcsException", h1)

-----------------------------------------------------------------------------
(* The documents and scopes the operations are called with *)

\* the token "$" open name close
Token(open, name) == <<"$", open>> \o name \o <<Close(open)>>

\* a dict of one entry
One(key, value) == Dict(<<key>>, <<value>>)

\* the fragments strings are made of: plain text and tokens of every shape
Pieces ==
    {<<"a">>,
     Token("(", <<"x">>), Token("(", <<"y">>), Token("(", <<"q">>),
     Token("(", <<"w">>), Token("(", <<"n">>),
     Token("[", <<"l">>), Token("{", <<"d">>),
     Token("<", <<"m", ".", "k">>)}

StrDocs ==
    {Str(p) : p \in Pieces} \cup {Str(p \o q) : p \in {<<"a">>, Token("(", <<"x">>)}, q \in Pieces}
    \cup {Str(<<>>), Str(Token("(", <<"x", ".", "y">>)), Str(Token("<", <<"f">>)),
          Str(Token("[", <<"q">>)), Str(Token("{", <<"q">>)), Str(<<"$", "(", "x">>),
          Str(Token("[", <<"t">>)), Str(Token("<", <<"m", ".", "z">>)),
          Str(<<"a">> \o Token("<", <<"q", ".", "k">>)),
          Str(<<"a">> \o Token("(", <<"x">>) \o <<"b">> \o Token("(", <<"y">>) \o <<"c">>)}

SelectCall(index, list) == One(Token("<", NameSelect), List(<<index, list>>))

JoinCall(delimiter, list) == One(Token("<", NameJoin), List(<<delimiter, list>>))

CSelectCall(index, list) == One(Token("<", NameCSelect), List(<<index, list>>))

MappingCall(names) == One(Token("<", NameMapping), List(names))

EchoCall(arg) == One(Token("<", <<"E", "c", "h", "o">>), arg)

\* a document of four calls of the registered callable Echo, which returns the
\* arguments it received
EchoAll ==
    List(<<EchoCall(Str(Token("{", <<"d">>))), EchoCall(Str(Token("[", <<"l">>))),
           EchoCall(Str(Token("(", <<"q">>))), EchoCall(Str(Token("(", <<"x">>)))>>)

\* function calls whose arguments exercise the built-ins
CallDocs ==
    {EchoAll,
     MappingCall(<<Str(<<"m">>), Str(<<"k">>)>>),
     MappingCall(<<Str(<<"m">>), Str(<<"z">>)>>),
     MappingCall(<<Str(<<"q">>), Str(<<"k">>)>>),
     SelectCall(Num(0), Str(Token("[", <<"l">>))),
     SelectCall(Str(<<"2">>), Str(Token("[", <<"l">>))),
     CSelectCall(Num(4), Str(Token("[", <<"l">>))),
     CSelectCall(Num(0), Str(Token("[", <<"l">>))),
     CSelectCall(Str(<<"5">>), Str(Token("[", <<"l">>))),
     One(Token("<", <<"N", "o">>), SelectCall(Num(1), Str(Token("[", <<"l">>))))}

DictDocs ==
    {Dict(<<>>, <<>>),
     One(<<"I", "d">>, SelectCall(Num(1), Str(Token("[", <<"I", "d", "s">>)))),
     SelectCall(Num(1), Str(Token("[", <<"l">>))),
     SelectCall(Num(3), Str(Token("[", <<"l">>))),
     JoinCall(Str(<<"-">>), Str(Token("[", <<"l">>))),
     JoinCall(Str(<<"-">>), Str(Token("(", <<"n">>))),
     JoinCall(Str(<<"-">>), List(<<Str(Token("(", <<"x">>)), SelectCall(Num(2), Str(Token("[", <<"l">>)))>>)),
     One(Token("<", <<"E", "c", "h", "o">>), Str(Token("(", <<"w">>))),
     One(Token("<", <<"N", "o">>), List(<<>>)),
     One(<<"k">>, Str(Token("(", <<"x">>))),
     Dict(<<<<"k">>, <<"j">>>>, <<Str(Token("(", <<"x">>)), Str(Token("{", <<"d">>))>>),
     Dict(<<Token("<", NameJoin), <<"k">>>>, <<List(<<Str(<<"-">>), Str(Token("[", <<"l">>))>>), Str(<<"a">>)>>),
     Dict(<<<<"k">>, Token("<", NameSelect)>>, <<Str(<<"a">>), List(<<Num(1), Str(Token("[", <<"l">>))>>)>>),
     One(Token("[", <<"l">>), List(<<Str(<<"a">>)>>)),
     One(Token("[", <<"l">>), Str(<<"a">>)),
     One(Token("(", <<"x">>), Str(<<"a">>)),
     Dict(<<<<"x">>, <<"k">>>>, <<Str(<<"v">>), Str(Token("(", <<"x">>))>>),
     Dict(<<<<"l">>, <<"k">>>>, <<List(<<Str(<<"a">>)>>), Str(Token("[", <<"l">>))>>)}

ListDocs ==
    {List(<<>>), List(<<Str(Token("(", <<"x">>)), Str(Token("[", <<"l">>))>>),
     List(<<Num(1), None, Str(<<"a">>)>>), List(<<Obj>>)}

Docs == StrDocs \cup DictDocs \cup ListDocs \cup CallDocs \cup {None, Num(0), Num(7)}

\* instance scopes and default scopes
InstanceA ==
    Dict(<< <<"x">>, <<"l">>, <<"d">>, <<"w">>, <<"n">>, <<"m">>, <<"t">> >>,
         << Str(<<"v">>),
            List(<<Str(<<"a">>), Str(<<"b">>)>>),
            Dict(<< <<"p">>, <<"r">> >>, << Str(<<"1">>), Str(<<"2">>) >>),
            Str(Token("(", <<"y">>)),
            List(<<Str(Token("(", <<"y">>))>>),
            One(<<"k">>, Str(<<"i">>)),
            Str(Token("[", <<"l">>)) >>)

DefaultA ==
    Dict(<< <<"x">>, <<"y">>, <<"l">>, <<"d">>, <<"m">> >>,
         << Str(<<"u">>),
            Str(<<"z">>),
            List(<<Str(<<"c">>)>>),
            Dict(<< <<"p">>, <<"s">> >>, << Str(<<"9">>), Str(<<"3">>) >>),
            One(<<"k">>, Str(<<"t">>)) >>)

InstanceIds == One(<<"I", "d", "s">>, List(<<Str(<<"x", "1">>), Str(<<"x", "2">>)>>))

\* a variable whose value refers back to it
InstanceLoop == One(<<"x">>, Str(Token("(", <<"x">>)))

Empty == Dict(<<>>, <<>>)

ScopePairs ==
    {<<InstanceA, DefaultA>>, <<InstanceA, Empty>>, <<Empty, DefaultA>>,
     <<InstanceIds, Empty>>, <<Empty, Empty>>, <<InstanceLoop, Empty>>, <<None, None>>}

\* what a caller may register, and under which names
CustomNames == {<<"E", "c", "h", "o">>}

CustomFuncs == {"user_echo"}

Engines == {1, 2}

\* frames left when a caller calls into the engine
MaxDepth == 24

\* the threads of a process that share the engines
Threads == {1, 2}

\* a thread that has not called tplsub yet
NotStarted ==
    [pc |-> "idle", eng |-> 1, doc |-> None, instance |-> None, default |-> None,
     params |-> R("ok", None, Heap(None, None, None, None, {}, <<>>)),
     status |-> "ok", value |-> None]

\* the documents and scopes the threads call tplsub with: each thread passes
\* objects of its own
ThreadDocs ==
    {MappingCall(<<Str(<<"m">>), Str(<<"k">>)>>), SelectCall(Num(1), Str(Token("[", <<"l">>)))}

ThreadScopes == {<<InstanceA, DefaultA>>, <<InstanceA, Empty>>}

-----------------------------------------------------------------------------
(* The engine objects and the operations on them *)

\* A launch configuration name is [base, stamp]: base alone when stamp is 0, else
\* base + '_U_' + the timestamp.  NoName: no name (a local not yet bound)
NoName == [base |-> "", stamp |-> 0]

Init ==
    /\ builtin = [e \in Engines |-> default_builtin]
    /\ instance_vars = [e \in Engines |-> None]
    /\ default_vars = [e \in Engines |-> None]
    /\ op = "init"
    /\ eng = 1
    /\ in_value = None
    /\ in_instance = None
    /\ in_default = None
    /\ out_status = "ok"
    /\ out_value = None
    /\ out_kind = "None"
    /\ out_instance = None
    /\ out_default = None
    /\ prev_value = None
    /\ calls = <<>>
    /\ threads = [t \in Threads |-> NotStarted]
    /\ diff = [op |-> "init", files |-> FALSE, old |-> None, new |-> None,
               status |-> "ok", result |-> None]
    /\ retry = [pc |-> "idle", tries |-> 0, interval |-> 0, i |-> 0, exception |-> "None",
                log |-> <<>>, outcome |-> "none", value |-> "None"]
    /\ aws = [pc |-> "idle", changed |-> FALSE, lc_name |-> NoName, new_lc_name |-> NoName,
              group_lc |-> NoName, configs |-> {}, attached |-> NoName, requests |-> <<>>,
              result |-> "none"]

\* A behaviour is one client session: the engines are constructed, callables are
\* registered, and one call is made (and its result expanded again).  What a call
\* returns depends on earlier calls through self.builtin alone: tplsub overwrites
\* self.instance_vars and self.default_vars before anything reads them.
Fresh == op \in {"init", "register_builtin"}

\* register_builtin writing to one table that all engine objects share
RegisterBuiltin_shared(e, name, fid) ==
    /\ builtin' = [x \in Engines |-> {p \in builtin[x] : p[1] # name} \cup {<<name, fid>>}]
    /\ op' = "register_builtin"
    /\ eng' = e
    /\ in_value' = Str(name)
    /\ in_instance' = None
    /\ in_default' = None
    /\ out_status' = "ok"
    /\ out_value' = None
    /\ out_kind' = "None"
    /\ out_instance' = None
    /\ out_default' = None
    /\ prev_value' = None
    /\ calls' = <<>>
    /\ UNCHANGED <<instance_vars, default_vars, aside>>

\* register_builtin starting again from the built-ins: self.builtin = dict(defaults)
RegisterBuiltin_reset(e, name, fid) ==
    /\ builtin' = [builtin EXCEPT ![e] = {p \in default_builtin : p[1] # name} \cup {<<name, fid>>}]
    /\ op' = "register_builtin"
    /\ eng' = e
    /\ in_value' = Str(name)
    /\ in_instance' = None
    /\ in_default' = None
    /\ out_status' = "ok"
    /\ out_value' = None
    /\ out_kind' = "None"
    /\ out_instance' = None
    /\ out_default' = None
    /\ prev_value' = None
    /\ calls' = <<>>
    /\ UNCHANGED <<instance_vars, default_vars, aside>>

\* engine.register_builtin({name: fid})
RegisterBuiltin(e, name, fid) ==
    /\ builtin' = [builtin EXCEPT ![e] = {p \in @ : p[1] # name} \cup {<<name, fid>>}]
    /\ op' = "register_builtin"
    /\ eng' = e
    /\ in_value' = Str(name)
    /\ in_instance' = None
    /\ in_default' = None
    /\ out_status' = "ok"
    /\ out_value' = None
    /\ out_kind' = "None"
    /\ out_instance' = None
    /\ out_default' = None
    /\ prev_value' = None
    /\ calls' = <<>>
    /\ UNCHANGED <<instance_vars, default_vars, aside>>

\* what engine.tplsub(value, instance, default) leaves in the engine and returns
TplsubEffect(e, value, instance, default) ==
    \E r \in {tplsub(value, Heap(instance, default, instance_vars[e], default_vars[e],
                                builtin[e], <<>>), MaxDepth)} :
       /\ eng' = e
       /\ in_instance' = instance
       /\ in_default' = default
       /\ out_status' = r.st
       /\ out_value' = r.v
       /\ out_kind' = "None"
       /\ out_instance' = r.h.iv
       /\ out_default' = r.h.dv
       /\ calls' = r.h.calls
       /\ instance_vars' = [instance_vars EXCEPT ![e] = r.h.siv]
       /\ default_vars' = [default_vars EXCEPT ![e] = r.h.sdv]
       /\ UNCHANGED <<builtin, aside>>

\* engine.tplsub(value, instance, default)
Tplsub(e, value, instance, default) ==
    /\ op' = "tplsub"
    /\ in_value' = value
    /\ prev_value' = None
    /\ TplsubEffect(e, value, instance, default)

\* the caller expands the value the expansion returned once more, with the same
\* scope objects: engine.tplsub(engine.tplsub(doc, I, D), I, D)
Reexpand(e) ==
    /\ op = "tplsub"
    /\ eng = e
    /\ out_status = "ok"
    /\ op' = "reexpand"
    /\ in_value' = in_value
    /\ prev_value' = out_value
    /\ IF in_instance = None /\ in_default = None
       THEN TplsubEffect(e, out_value, None, None)
       ELSE TplsubEffect(e, out_value, out_instance, out_default)

\* engine.type_of(value)
TypeOf(e, value) ==
    /\ op' = "type_of"
    /\ eng' = e
    /\ in_value' = value
    /\ in_instance' = None
    /\ in_default' = None
    /\ out_status' = "ok"
    /\ out_kind' = type_of(value).kind
    /\ out_value' = IF type_of(value).kind \in {"None", "bare"} THEN None ELSE Str(type_of(value).key)
    /\ out_instance' = None
    /\ out_default' = None
    /\ prev_value' = None
    /\ calls' = <<>>
    /\ UNCHANGED <<builtin, instance_vars, default_vars, aside>>

\* engine.do_sub(value, instance, default)
DoSub(e, value, instance, default) ==
    \E r \in {do_sub(value, Heap(instance, default, instance_vars[e], default_vars[e],
                                builtin[e], <<>>), MaxDepth)} :
       /\ op' = "do_sub"
       /\ eng' = e
       /\ in_value' = value
       /\ in_instance' = instance
       /\ in_default' = default
       /\ out_status' = r.st
       /\ out_value' = r.v
       /\ out_kind' = type_of(value).kind
       /\ out_instance' = r.h.iv
       /\ out_default' = r.h.dv
       /\ prev_value' = None
       /\ calls' = r.h.calls
       /\ instance_vars' = [instance_vars EXCEPT ![e] = r.h.siv]
       /\ default_vars' = [default_vars EXCEPT ![e] = r.h.sdv]
       /\ UNCHANGED <<builtin, aside>>

Next ==
    \/ \E e \in Engines, name \in CustomNames, fid \in CustomFuncs :
           Fresh /\ RegisterBuiltin(e, name, fid)
    \/ \E e \in Engines, value \in Docs, sp \in ScopePairs :
           Fresh /\ Tplsub(e, value, sp[1], sp[2])
    \/ \E e \in Engines : Reexpand(e)
    \/ \E e \in Engines, value \in Docs : Fresh /\ TypeOf(e, value)
    \/ \E e \in Engines, value \in StrDocs, sp \in ScopePairs :
           Fresh /\ DoSub(e, value, sp[1], sp[2])

Spec == Init /\ [][Next]_vars

\* Thread t calls e.tplsub(doc, instance, default) for a function-call document and
\* runs up to the call of the callable: tplsub stores the scopes in the engine,
\* tplsub_dict and tplsub_func look the function up, and the argument is expanded.
ThreadExpandArgs(t, e, doc, instance, default) ==
    /\ threads[t].pc = "idle"
    /\ type_of(doc).kind = "func"
    /\ Registered(builtin[e], type_of(doc).key)
    /\ \E p \in {tplsub(doc.c[1], Heap(instance, default, instance, default, builtin[e], <<>>),
                         MaxDepth - 2)} :
           /\ threads' = [threads EXCEPT ![t] =
                  [pc |-> "call", eng |-> e, doc |-> doc, instance |-> instance,
                   default |-> default, params |-> p, status |-> "ok", value |-> None]]
           /\ instance_vars' = [instance_vars EXCEPT ![e] = p.h.siv]
           /\ default_vars' = [default_vars EXCEPT ![e] = p.h.sdv]
    /\ UNCHANGED <<builtin, op, eng, in_value, in_instance, in_default, out_status,
                   out_value, out_kind, out_instance, out_default, prev_value, calls,
                   diff, retry, aws>>

\* Thread t goes on: tplsub_func invokes the callable with the expanded argument,
\* and a callable that is a method of the engine reads what the engine holds now.
ThreadCall(t) ==
    /\ threads[t].pc = "call"
    /\ \E r \in {CallWith(type_of(threads[t].doc).key,
                           [threads[t].params EXCEPT
                               !.h.siv = instance_vars[threads[t].eng],
                               !.h.sdv = default_vars[threads[t].eng]])} :
           threads' = [threads EXCEPT ![t].pc = "done", ![t].status = r.st, ![t].value = r.v]
    /\ UNCHANGED <<builtin, instance_vars, default_vars, op, eng, in_value, in_instance,
                   in_default, out_status, out_value, out_kind, out_instance, out_default,
                   prev_value, calls, diff, retry, aws>>

ThreadNext ==
    \/ \E t \in Threads, e \in Engines, doc \in ThreadDocs, sp \in ThreadScopes :
           ThreadExpandArgs(t, e, doc, sp[1], sp[2])
    \/ \E t \in Threads : ThreadCall(t)

ThreadSpec == Init /\ [][ThreadNext]_vars

\* Registrations and expansions in any order, on either engine: the names a caller
\* registers (a new one, and one of the built-ins), the callables, the documents
RegNames == {<<"E", "c", "h", "o">>, NameJoin}

RegistryDocs == {EchoCall(Str(Token("(", <<"x">>))), JoinCall(Str(<<"-">>), Str(Token("[", <<"l">>)))}

RegistryNext ==
    \/ \E e \in Engines, name \in RegNames, fid \in {"user_echo", "func_base64"} :
           RegisterBuiltin(e, name, fid)
    \/ \E e \in Engines, value \in RegistryDocs : Tplsub(e, value, InstanceA, DefaultA)

RegistrySpec == Init /\ [][RegistryNext]_vars

-----------------------------------------------------------------------------
(* opslib/icsutils/jsondiff.py, class Comparator.  A result is a dict whose   *)
(* values are dicts; the int key idx of an array position is written           *)
(* <<"#", digit>>, apart from every str key.  An outcome is [st, v], v being   *)
(* None where the code returns None.                                           *)

PLUS == <<"+", "+", "+">>

MINUS == <<"-", "-", "-">>

IdxKey(idx) == <<"#", CHOOSE d \in Digits : DigitValue(d) = idx>>

\* The object the constructor builds: obj1 and obj2 are None unless files are given
Comparator(fp1, fp2) ==
    [obj1 |-> fp1, obj2 |-> fp2, included_attributes |-> {}, excluded_attributes |-> {},
     ignore_added |-> FALSE]

DiffOk(v) == [st |-> "ok", v |-> v]

DiffRaise(exc) == [st |-> exc, v |-> None]

\* the elements of seq at the positions in keep, in their order
Pick(seq, keep) ==
    LET idxs == SelectSeq([i \in 1..Len(seq) |-> i], LAMBDA i : i \in keep)
    IN [j \in 1..Len(idxs) |-> seq[idxs[j]]]

is_incex_key(self, key, value) ==
    LET key_out == \/ self.included_attributes # {} /\ key \notin self.included_attributes
                   \/ key \in self.excluded_attributes
        value_out == ~ /\ IsDict(value)
                       /\ \E i \in 1..Len(value.c) :
                              /\ IsDict(value.c[i])
                              /\ \E j \in 1..Len(value.c[i].k) :
                                     \/ /\ self.included_attributes # {}
                                        /\ value.c[i].k[j] \in self.included_attributes
                                     \/ value.c[i].k[j] \notin self.excluded_attributes
    IN key_out /\ value_out

filter_results(self, result) ==
    LET kept(change_type, entries) ==
            {i \in 1..Len(entries.k) :
                /\ ~(self.ignore_added /\ change_type = PLUS)
                /\ ~is_incex_key(self, entries.k[i], entries.c[i])}
        temps == [i \in 1..Len(result.k) |->
                     Dict(Pick(result.c[i].k, kept(result.k[i], result.c[i])),
                          Pick(result.c[i].c, kept(result.k[i], result.c[i])))]
        keep == {i \in 1..Len(result.k) : Len(temps[i].k) > 0}
    IN Dict(Pick(result.k, keep), Pick(temps, keep))

compare_scalars(old, new) ==
    IF ~PyEq(old, new) THEN Dict(<<MINUS, PLUS>>, <<old, new>>) ELSE None

\* result = {u"+++": {}, u"---": {}}
EmptyResult == Dict(<<PLUS, MINUS>>, <<Dict(<<>>, <<>>), Dict(<<>>, <<>>)>>)

\* `obj and len(obj) > 0` then set(obj.keys()): the keys, or what it raises
KeysOf(obj) ==
    IF Falsy(obj) THEN DiffOk(<<>>)
    ELSE IF obj.t = "int" THEN DiffRaise("TypeError")
    ELSE IF obj.t # "dict" THEN DiffRaise("AttributeError")
    ELSE DiffOk(obj.k)

\* the rest of the larger array: result[idx] = {sign: arr[idx]} from position idx on
RECURSIVE RestOf(_, _, _, _)
RestOf(result, arr, sign, idx) ==
    IF idx > Len(arr) THEN result
    ELSE RestOf(SetItem(result, IdxKey(idx - 1), Dict(<<sign>>, <<arr[idx]>>)), arr, sign, idx + 1)

RECURSIVE compare_dicts(_, _, _, _)
RECURSIVE CompareResolved(_, _, _, _)
RECURSIVE DiffNames(_, _, _, _, _, _, _)
RECURSIVE compare_elements(_, _, _, _)
RECURSIVE compare_arrays(_, _, _, _)
RECURSIVE DiffIndexes(_, _, _, _, _, _)

compare_elements(self, old, new, depth) ==
    IF IsDict(old)
    THEN Only({IF r.st = "ok" /\ Len(r.v.k) = 0 THEN DiffOk(None) ELSE r :
                  r \in {compare_dicts(self, old, new, depth - 1)}})
    ELSE IF old.t # new.t
    THEN DiffOk(Dict(<<MINUS, PLUS>>, <<old, new>>))
    ELSE IF IsList(old)
    THEN Only({IF r.st = "ok" /\ Len(r.v.k) = 0 THEN DiffOk(None) ELSE r :
                  r \in {compare_arrays(self, old.c, new.c, depth)}})
    ELSE DiffOk(compare_scalars(old, new))

\* the loop over range(inters), idx being the position (from 1) in both arrays
DiffIndexes(self, old_arr, new_arr, idx, result, depth) ==
    IF idx > Len(old_arr) \/ idx > Len(new_arr) THEN DiffOk(result)
    ELSE Only({IF r.st # "ok" THEN r
               ELSE DiffIndexes(self, old_arr, new_arr, idx + 1,
                                IF r.v = None THEN result
                                ELSE SetItem(result, IdxKey(idx - 1), r.v), depth) :
                  r \in {compare_elements(self, old_arr[idx], new_arr[idx], depth)}})

compare_arrays(self, old_arr, new_arr, depth) ==
    Only({IF r.st # "ok" THEN r
          ELSE DiffOk(filter_results(self,
                   IF Len(old_arr) <= Len(new_arr)
                   THEN RestOf(r.v, new_arr, PLUS, Len(old_arr) + 1)
                   ELSE RestOf(r.v, old_arr, MINUS, Len(new_arr) + 1))) :
             r \in {DiffIndexes(self, old_arr, new_arr, 1, EmptyResult, depth)}})

\* the loop `for name in keys`; neither object is a str, a list or a number here
DiffNames(self, old_obj, new_obj, keys, i, result, depth) ==
    IF i > Len(keys) THEN DiffOk(result)
    ELSE IF ~IsDict(old_obj) THEN DiffRaise("TypeError")
    ELSE IF ~HasKey(old_obj, keys[i])
    THEN DiffNames(self, old_obj, new_obj, keys, i + 1,
                   SetItem(result, PLUS,
                           SetItem(Get(result, PLUS), keys[i], Get(new_obj, keys[i]))), depth)
    ELSE IF ~IsDict(new_obj) THEN DiffRaise("TypeError")
    ELSE IF ~HasKey(new_obj, keys[i])
    THEN DiffNames(self, old_obj, new_obj, keys, i + 1,
                   SetItem(result, MINUS,
                           SetItem(Get(result, MINUS), keys[i], Get(old_obj, keys[i]))), depth)
    ELSE Only({IF r.st # "ok" THEN r
               ELSE DiffNames(self, old_obj, new_obj, keys, i + 1,
                              IF r.v = None THEN result ELSE SetItem(result, keys[i], r.v),
                              depth) :
                  r \in {compare_elements(self, Get(old_obj, keys[i]), Get(new_obj, keys[i]),
                                          depth)}})

\* compare_dicts once old_obj and new_obj are what the first four lines make them
CompareResolved(self, old_obj, new_obj, depth) ==
    IF KeysOf(old_obj).st # "ok" THEN DiffRaise(KeysOf(old_obj).st)
    ELSE IF KeysOf(new_obj).st # "ok" THEN DiffRaise(KeysOf(new_obj).st)
    ELSE Only({IF r.st # "ok" THEN r ELSE DiffOk(filter_results(self, r.v)) :
                  r \in {DiffNames(self, old_obj, new_obj,
                                   KeysOf(old_obj).v \o
                                       SelectSeq(KeysOf(new_obj).v,
                                                 LAMBDA name : ~HasKey(old_obj, name)),
                                   1, EmptyResult, depth)}})

\* The nested calls of compare_dicts one comparison may make before it reaches
\* Python's recursion limit
MaxCompareDepth == 8

\* depth frames are left before Python's recursion limit ("RuntimeError")
compare_dicts(self, old_obj, new_obj, depth) ==
    IF depth <= 0 THEN DiffRaise("RuntimeError")
    ELSE CompareResolved(self,
                         IF Falsy(old_obj) THEN self.obj1 ELSE old_obj,
                         IF Falsy(new_obj) THEN self.obj2 ELSE new_obj, depth)

\* The JSON objects compared: equal and different scalars, added and removed keys,
\* nested objects (empty ones too), arrays of different lengths, changes of type
DiffDocs ==
    {Dict(<<>>, <<>>), Dict(<<<<"a">>, <<"b">>>>, <<Num(1), Str(<<"x">>)>>)}
        \cup {Dict(<<<<"a">>>>, <<value>>) : value \in
                 {Num(1), Num(2), Str(<<"x">>), None,
                  Dict(<<>>, <<>>), Dict(<<<<"c">>>>, <<Num(1)>>), Dict(<<<<"c">>>>, <<Num(2)>>),
                  Dict(<<<<"c">>>>, <<Dict(<<>>, <<>>)>>),
                  List(<<Num(1)>>), List(<<Num(1), Num(2)>>),
                  List(<<Num(1), Dict(<<<<"c">>>>, <<Num(1)>>)>>),
                  List(<<Str(<<"x">>), Dict(<<<<"c">>>>, <<Num(1)>>)>>)}}

\* engine = Comparator(fp_old, fp_new); engine.compare_dicts()   (files), or
\* engine = Comparator(); engine.compare_dicts(old, new)
Compare(old, new, files) ==
    /\ \E r \in {IF files
                  THEN compare_dicts(Comparator(old, new), None, None, MaxCompareDepth)
                  ELSE compare_dicts(Comparator(None, None), old, new, MaxCompareDepth)} :
           diff' = [op |-> "compare_dicts", files |-> files, old |-> old, new |-> new,
                    status |-> r.st, result |-> r.v]
    /\ UNCHANGED <<jsonsubs, retry, aws>>

DiffNext == \E old \in DiffDocs, new \in DiffDocs, files \in BOOLEAN : Compare(old, new, files)

DiffSpec == Init /\ [][DiffNext]_vars

-----------------------------------------------------------------------------
(* opslib/icsutils/misc.py, class Retry: one call of the wrapper fn of a         *)
(* function f.  retry.log lists what the wrapper did, in order: the invocations *)
(* of f with what each gave, and the sleeps with their length (with no interval *)
(* the length is drawn below 2 ** i, and the log keeps that limit).             *)

\* the largest number of tries a wrapper is built with
MaxTries == 3

\* Retry.default_exceptions = (Exception): what `except self.exceptions` catches;
\* KeyboardInterrupt is a BaseException and is not caught
Caught == {"IOError", "ValueError"}

\* what one invocation of f does: it returns a value or raises an exception
Outcomes ==
    {[kind |-> "return", what |-> w] : w \in {"a", "b"}}
        \cup {[kind |-> "raise", what |-> w] : w \in Caught \cup {"KeyboardInterrupt"}}

Invoked(i, outcome) == [e |-> "call", n |-> i, kind |-> outcome.kind, what |-> outcome.what]

Slept(next_sleep) == [e |-> "sleep", n |-> next_sleep, kind |-> "", what |-> ""]

\* fn(*args, **kwargs) is called on Retry(tries, interval)(f)
RetryCall(tries, interval) ==
    /\ retry.pc = "idle"
    /\ retry' = [retry EXCEPT !.pc = "loop", !.tries = tries, !.interval = interval,
                              !.i = 0, !.exception = "None"]
    /\ UNCHANGED <<jsonsubs, diff, aws>>

\* the same iteration, sleeping after every caught exception
RetryAttempt_always_sleeps(outcome) ==
    /\ retry.pc = "loop"
    /\ retry.i < retry.tries
    /\ LET next_sleep == IF retry.interval # 0 THEN retry.interval ELSE 2 ^ retry.i
           called == Append(retry.log, Invoked(retry.i, outcome))
       IN retry' =
            IF outcome.kind = "return"
            THEN [retry EXCEPT !.pc = "returned", !.log = called,
                               !.outcome = "return", !.value = outcome.what]
            ELSE IF outcome.what \in Caught
            THEN [retry EXCEPT !.exception = outcome.what, !.i = retry.i + 1,
                               !.log = Append(called, Slept(next_sleep))]
            ELSE [retry EXCEPT !.pc = "raised", !.log = called,
                               !.outcome = "raise", !.value = outcome.what]
    /\ UNCHANGED <<jsonsubs, diff, aws>>

\* one iteration of `for i in range(self.tries)`: f is invoked
RetryAttempt(outcome) ==
    /\ retry.pc = "loop"
    /\ retry.i < retry.tries
    /\ LET next_sleep == IF retry.interval # 0 THEN retry.interval ELSE 2 ^ retry.i
           called == Append(retry.log, Invoked(retry.i, outcome))
       IN retry' =
            IF outcome.kind = "return"
            THEN [retry EXCEPT !.pc = "returned", !.log = called,
                               !.outcome = "return", !.value = outcome.what]
            ELSE IF outcome.what \in Caught
            THEN [retry EXCEPT !.exception = outcome.what, !.i = retry.i + 1,
                               !.log = IF retry.i + 1 # retry.tries
                                       THEN Append(called, Slept(next_sleep))
                                       ELSE called]
            ELSE [retry EXCEPT !.pc = "raised", !.log = called,
                               !.outcome = "raise", !.value = outcome.what]
    /\ UNCHANGED <<jsonsubs, diff, aws>>

\* after the loop: `raise exception`; with no iteration it raises None, a TypeError
RetryExhausted ==
    /\ retry.pc = "loop"
    /\ retry.i = retry.tries
    /\ retry' = [retry EXCEPT !.pc = "raised", !.outcome = "raise",
                              !.value = IF retry.exception = "None" THEN "TypeError"
                                        ELSE retry.exception]
    /\ UNCHANGED <<jsonsubs, diff, aws>>

RetryNext ==
    \/ \E tries \in 0..MaxTries, interval \in {0, 2} : RetryCall(tries, interval)
    \/ \E outcome \in Outcomes : RetryAttempt(outcome)
    \/ RetryExhausted

RetrySpec == Init /\ [][RetryNext]_vars

-----------------------------------------------------------------------------
(* opslib/icsas.py, RawAS.update_group, request by request.  aws.configs are the *)
(* launch configurations the service holds and aws.attached the one of the       *)
(* group; aws.requests lists the requests sent, each with whether it succeeded   *)
(* (a request that fails changes nothing at the service).                        *)

\* operate(self.service, cmd, params) for the launch configuration name: the request
\* is sent, and ok tells whether it succeeded
Sent(cmd, name, ok) ==
    [aws EXCEPT !.requests = Append(aws.requests, [cmd |-> cmd, name |-> name, ok |-> ok])]

\* update_group is called for a group that has the launch configuration lc_name;
\* changed: the merged launch_config differs from the one fetched; named: the
\* caller's group_config names the launch configuration of the group
UpdateGroup(lc_name, changed, named) ==
    /\ aws.pc = "idle"
    /\ aws' = [aws EXCEPT !.pc = "fetch_group", !.changed = changed, !.lc_name = lc_name,
                          !.group_lc = IF named THEN lc_name ELSE NoName,
                          !.configs = {lc_name}, !.attached = lc_name]
    /\ UNCHANGED <<jsonsubs, diff, retry>>

FetchGroup(ok) ==
    /\ aws.pc = "fetch_group"
    /\ aws' = [Sent("DescribeAutoScalingGroups", NoName, ok) EXCEPT
                   !.pc = IF ok THEN "fetch_launch_config" ELSE "done",
                   !.result = IF ok THEN "none" ELSE "False"]
    /\ UNCHANGED <<jsonsubs, diff, retry>>

FetchLaunchConfig(ok) ==
    /\ aws.pc = "fetch_launch_config"
    /\ aws' = [Sent("DescribeLaunchConfigurations", aws.lc_name, ok) EXCEPT
                   !.pc = IF ~ok THEN "done"
                          ELSE IF aws.changed THEN "modify_launch_config"
                          ELSE "modify_group",
                   !.result = IF ok THEN "none" ELSE "False"]
    /\ UNCHANGED <<jsonsubs, diff, retry>>

\* modify_launch_config: the new name keeps what precedes the delimiter
ModifyLaunchConfig(timestamp, ok) ==
    /\ aws.pc = "modify_launch_config"
    /\ LET new_lc_name == [base |-> aws.lc_name.base, stamp |-> timestamp]
       IN aws' = [Sent("CreateLaunchConfiguration", new_lc_name, ok) EXCEPT
                     !.pc = IF ok THEN "modify_group" ELSE "done",
                     !.result = IF ok THEN "none" ELSE "False",
                     !.new_lc_name = IF ok THEN new_lc_name ELSE NoName,
                     !.group_lc = IF ok THEN new_lc_name ELSE aws.group_lc,
                     !.configs = IF ok THEN aws.configs \cup {new_lc_name} ELSE aws.configs]
    /\ UNCHANGED <<jsonsubs, diff, retry>>

ModifyGroup(ok) ==
    /\ aws.pc = "modify_group"
    /\ aws' = [Sent("UpdateAutoScalingGroup", aws.group_lc, ok) EXCEPT
                   !.pc = IF ok THEN "delete_previous" ELSE "delete_new",
                   !.attached = IF ok /\ aws.group_lc # NoName THEN aws.group_lc
                                ELSE aws.attached]
    /\ UNCHANGED <<jsonsubs, diff, retry>>

\* after modify_group failed: delete_launch_config(new_lc_name); the name is not
\* bound when nothing was created, and the NameError is caught and logged
DeleteNew(ok) ==
    /\ aws.pc = "delete_new"
    /\ aws' = IF aws.new_lc_name = NoName
              THEN [aws EXCEPT !.pc = "done", !.result = "False"]
              ELSE [Sent("DeleteLaunchConfiguration", aws.new_lc_name, ok) EXCEPT
                       !.pc = "done", !.result = "False",
                       !.configs = IF ok THEN aws.configs \ {aws.new_lc_name} ELSE aws.configs]
    /\ UNCHANGED <<jsonsubs, diff, retry>>

\* after modify_group succeeded: delete_launch_config(lc_name)
DeletePrevious(ok) ==
    /\ aws.pc = "delete_previous"
    /\ aws' = [Sent("DeleteLaunchConfiguration", aws.lc_name, ok) EXCEPT
                   !.pc = "done", !.result = IF ok THEN "True" ELSE "False",
                   !.configs = IF ok THEN aws.configs \ {aws.lc_name} ELSE aws.configs]
    /\ UNCHANGED <<jsonsubs, diff, retry>>

UpdateNext ==
    \/ \E lc_name \in {[base |-> "web", stamp |-> 0], [base |-> "web", stamp |-> 1],
                        [base |-> "db", stamp |-> 1]}, changed \in BOOLEAN, named \in BOOLEAN :
           UpdateGroup(lc_name, changed, named)
    \/ \E ok \in BOOLEAN : FetchGroup(ok)
    \/ \E ok \in BOOLEAN : FetchLaunchConfig(ok)
    \/ \E timestamp \in {2, 3}, ok \in BOOLEAN : ModifyLaunchConfig(timestamp, ok)
    \/ \E ok \in BOOLEAN : ModifyGroup(ok)
    \/ \E ok \in BOOLEAN : DeleteNew(ok)
    \/ \E ok \in BOOLEAN : DeletePrevious(ok)

UpdateSpec == Init /\ [][UpdateNext]_vars

-----------------------------------------------------------------------------
(* Vocabulary of the properties *)

\* every token that occurs in the string s, at any position
TokensIn(s) ==
    {SubSeq(s, p[1], p[2]) : p \in {q \in (1..Len(s)) \X (1..Len(s)) : MatchFromTo(s, q[1], q[2])}}

\* no string of the value, at any depth, holds a token
RECURSIVE NoToken(_)
NoToken(v) ==
    IF IsStr(v) THEN ~Search(v.s).found
    ELSE \A i \in 1..Len(v.c) : NoToken(v.c[i])

Has(scope, key) == IsDict(scope) /\ HasKey(scope, key)

\* the reference the token tk makes can be resolved in the scopes I and D
TokenResolvable(tk, I, D) ==
    IF tk[2] = "<"
    THEN /\ HasDot(tk)
         /\ PathParses(Payload(tk))
         /\ \/ PathSearch(I, SplitDots(Payload(tk)), 1) # None
            \/ PathSearch(D, SplitDots(Payload(tk)), 1) # None
    ELSE /\ tk[2] = "(" => ~HasDot(tk)
         /\ Has(I, Payload(tk)) \/ Has(D, Payload(tk))

RECURSIVE RefsResolvable(_, _, _)
RefsResolvable(v, I, D) ==
    IF IsStr(v) THEN \A tk \in TokensIn(v.s) : TokenResolvable(tk, I, D)
    ELSE \A i \in 1..Len(v.c) : RefsResolvable(v.c[i], I, D)

\* all references are resolvable: those of the document and those of the values
\* the scopes hold
AllResolvable(doc, I, D) ==
    RefsResolvable(doc, I, D) /\ RefsResolvable(I, I, D) /\ RefsResolvable(D, I, D)

\* tplsub called without scopes takes the document as the instance scope
Bootstrapped == op \in {"tplsub", "reexpand"} /\ in_instance = None /\ in_default = None

\* the instance scope the first expansion of the session worked with
EffInstance == IF Bootstrapped THEN in_value ELSE in_instance

\* the key of the reference that do_sub was given
RefKey == type_of(in_value).key

ScopesAreDicts == IsDict(in_instance) /\ IsDict(in_default)

InBoth == ScopesAreDicts /\ HasKey(in_instance, RefKey) /\ HasKey(in_default, RefKey)

InNeither == ScopesAreDicts /\ ~HasKey(in_instance, RefKey) /\ ~HasKey(in_default, RefKey)

\* the set of keys of a dict
KeySet(d) == {d.k[i] : i \in 1..Len(d.k)}

\* a dict of exactly one entry whose key is a $<...> token
IsFuncCallDict(d) ==
    /\ Len(d.k) = 1
    /\ Search(d.k[1]).found
    /\ Search(d.k[1]).key[2] = "<"

-----------------------------------------------------------------------------
(* Properties *)

\* C1: expansion is idempotent: when all references of the document and the scopes
\* are resolvable, expanding the result of an expansion again with the same scopes
\* succeeds and returns that result unchanged.
C1_ExpansionIdempotent ==
    (op = "reexpand" /\ AllResolvable(in_value, EffInstance, in_default))
        => (out_status = "ok" /\ PyEq(out_value, prev_value))

\* C2: no expansion or resolution call writes to its scopes: the caller's instance
\* scope object and default scope object hold after the call, whether it returned
\* or raised, what they held before it.
C2_ScopesNotMutated ==
    op \in {"tplsub", "reexpand", "do_sub"}
        => /\ out_default = in_default
           /\ out_instance = IF ~Bootstrapped THEN in_instance
                             ELSE IF op = "reexpand" THEN prev_value ELSE in_value

\* C2 witness: an expansion that merged a list reference from both scopes and
\* called a built-in function has returned.
C2_Witness ==
    /\ op = "tplsub"
    /\ in_value = SelectCall(Num(1), Str(Token("[", <<"l">>)))
    /\ ScopesAreDicts
    /\ HasKey(in_instance, <<"l">>) /\ HasKey(in_default, <<"l">>)
    /\ Len(calls) = 1
    /\ Len(calls[1].params.c[2].c) = 3
    /\ out_status = "ok"

\* C3: a plain reference $(name) resolves to the instance scope's value when the
\* instance scope has the key, else to the default scope's value when the default
\* scope has it, else to None.
C3_PlainPrecedence ==
    (op = "do_sub" /\ out_kind = "str" /\ ScopesAreDicts)
        => /\ out_status = "ok"
           /\ HasKey(in_instance, RefKey) => out_value = Get(in_instance, RefKey)
           /\ (~HasKey(in_instance, RefKey) /\ HasKey(in_default, RefKey))
                  => out_value = Get(in_default, RefKey)
           /\ InNeither => out_value = None

\* C3 witness: a plain reference whose key both scopes hold with different values
\* has been resolved.
C3_Witness ==
    /\ op = "do_sub"
    /\ out_kind = "str"
    /\ InBoth
    /\ Get(in_instance, RefKey) # Get(in_default, RefKey)
    /\ out_value = Get(in_instance, RefKey)

\* C4: a dict reference ${key} whose key is dict-valued in both scopes resolves to
\* a dict with the union of the two dicts' keys in which every key both dicts hold
\* has the instance scope's value.
C4_DictMergeInstanceOverrides ==
    (op = "do_sub" /\ out_kind = "dict" /\ InBoth
     /\ IsDict(Get(in_instance, RefKey)) /\ IsDict(Get(in_default, RefKey)))
        => /\ out_status = "ok"
           /\ IsDict(out_value)
           /\ KeySet(out_value) = KeySet(Get(in_instance, RefKey)) \cup KeySet(Get(in_default, RefKey))
           /\ \A key \in KeySet(Get(in_instance, RefKey)) \cap KeySet(Get(in_default, RefKey)) :
                  Get(out_value, key) = Get(Get(in_instance, RefKey), key)

\* C5: a list reference $[key] whose key is list-valued in both scopes resolves,
\* through the resolver and through the expander, to the instance scope's list
\* followed by the default scope's list.
C5_ListMergeOrder ==
    (op \in {"do_sub", "tplsub"} /\ IsStr(in_value) /\ type_of(in_value).kind = "list"
     /\ in_value.s = Token("[", RefKey) /\ InBoth
     /\ IsList(Get(in_instance, RefKey)) /\ IsList(Get(in_default, RefKey)))
        => /\ out_status = "ok"
           /\ out_value = List(Get(in_instance, RefKey).c \o Get(in_default, RefKey).c)

\* C5 witness: a list reference has been resolved from two non-empty lists.
C5_Witness ==
    /\ op = "do_sub"
    /\ out_kind = "list"
    /\ InBoth
    /\ Len(Get(in_instance, RefKey).c) = 2
    /\ Len(Get(in_default, RefKey).c) = 1
    /\ Len(out_value.c) = 3

\* C6: the argument expression of a function call is completely expanded before
\* the callable is invoked: with all references resolvable, a callable receives
\* no token; and {"Id": {"$<Select>": [1, "$[Ids]"]}} with the instance scope
\* {"Ids": ["x1", "x2"]} expands to {"Id": "x1"}.
C6_ArgumentsResolvedBeforeCall ==
    /\ (op = "tplsub" /\ AllResolvable(in_value, EffInstance, in_default))
           => \A i \in 1..Len(calls) : NoToken(calls[i].params)
    /\ (op = "tplsub" /\ in_instance = InstanceIds /\ in_default = Empty
        /\ in_value = One(<<"I", "d">>, SelectCall(Num(1), Str(Token("[", <<"I", "d", "s">>)))))
           => (out_status = "ok" /\ out_value = One(<<"I", "d">>, Str(<<"x", "1">>)))

\* C7: with all references resolvable, what an expansion returns holds no token:
\* a list or dict a reference resolves to is itself expanded at every depth.
C7_OutputHasNoToken ==
    (op = "tplsub" /\ out_status = "ok" /\ AllResolvable(in_value, EffInstance, in_default))
        => NoToken(out_value)

\* C8 as stated: a plain, list or dict reference whose key neither scope holds
\* resolves without an error, to None for each of the three kinds.
C8_AbsentKeyGivesNone ==
    (op = "do_sub" /\ out_kind \in {"str", "list", "dict"} /\ InNeither)
        => (out_status = "ok" /\ out_value = None)

\* C8: a plain, list or dict reference whose key neither scope holds resolves
\* without an error: to None for a plain reference, to an empty list for a list
\* reference and to an empty dict for a dict reference.
C8_AbsentKeyNoError ==
    (op = "do_sub" /\ out_kind \in {"str", "list", "dict"} /\ InNeither)
        => /\ out_status = "ok"
           /\ out_kind = "str" => out_value = None
           /\ out_kind = "list" => out_value = List(<<>>)
           /\ out_kind = "dict" => out_value = Dict(<<>>, <<>>)

\* C8 witness: a list reference whose key neither scope holds has been resolved.
C8_Witness ==
    /\ op = "do_sub"
    /\ out_kind = "list"
    /\ InNeither
    /\ in_instance # Empty
    /\ out_status = "ok"

\* C9: type_of is total: it returns (None, None) or a (kind, payload) pair for every
\* value; (None, None) for a value that is not a string or dict or that is falsy;
\* and for a string the kind of the bracket pair of its first token: () plain
\* variable, [] list variable, {} dict variable, <> mapping reference when the
\* inner text holds a '.'.
C9_TypeOfTotal ==
    op = "type_of"
        => /\ out_kind # "bare"
           /\ (Falsy(in_value) \/ ~(IsStr(in_value) \/ IsDict(in_value))) => out_kind = "None"
           /\ (IsStr(in_value) /\ Search(in_value.s).found)
                  => LET tk == Search(in_value.s).key
                     IN /\ tk[2] = "(" => out_kind = "str"
                        /\ tk[2] = "[" => out_kind = "list"
                        /\ tk[2] = "{" => out_kind = "dict"
                        /\ (tk[2] = "<" /\ HasDot(Payload(tk))) => out_kind = "map"
                        /\ out_value = Str(Payload(tk))

\* C10: a dict that is not a single entry under a $<...> key is expanded value by
\* value: what the expansion returns is a dict with exactly the keys of the input.
C10_OnlySingleEntryIsFuncCall ==
    (op = "tplsub" /\ IsDict(in_value) /\ ~IsFuncCallDict(in_value) /\ out_status = "ok")
        => (IsDict(out_value) /\ KeySet(out_value) = KeySet(in_value))

\* what a callable that returns its arguments gives when tplsub_func passes it p
\* as the claim says: the keywords, the positional arguments, none, or p alone
Received(p) ==
    IF IsDict(p) THEN (IF p.k = <<>> THEN List(<<>>) ELSE p)
    ELSE IF IsList(p) THEN p
    ELSE IF Falsy(p) THEN List(<<>>)
    ELSE List(<<p>>)

\* C11: a registered callable is invoked with keyword arguments when the resolved
\* argument is a dict, with positional arguments when it is a list, with no
\* argument when it is otherwise falsy, and with the resolved argument as its single
\* positional argument in every other case.
C11_ArgumentPassing ==
    op = "tplsub"
        => /\ \A i \in 1..Len(calls) :
                  calls[i].mode = IF IsDict(calls[i].params) THEN "kw"
                                  ELSE IF IsList(calls[i].params) THEN "pos"
                                  ELSE IF Falsy(calls[i].params) THEN "none"
                                  ELSE "single"
           /\ (in_value = EchoAll /\ out_status = "ok")
                  => /\ Len(calls) = 4
                     /\ \A i \in 1..4 : out_value.c[i] = Received(calls[i].params)

\* C11 witness: one expansion has called Echo with a dict, a list, None and a
\* string, in each of the four ways.
C11_Witness ==
    /\ op = "tplsub"
    /\ in_value = EchoAll
    /\ out_status = "ok"
    /\ Len(calls) = 4
    /\ <<calls[1].mode, calls[2].mode, calls[3].mode, calls[4].mode>>
           = <<"kw", "pos", "none", "single">>
    /\ out_value.c[4] = List(<<Str(<<"v">>)>>)

\* the value a plain reference token resolves to: the instance scope's, else the
\* default scope's, else None
PlainValue(tk, I, D) ==
    IF Has(I, Payload(tk)) THEN Get(I, Payload(tk))
    ELSE IF Has(D, Payload(tk)) THEN Get(D, Payload(tk))
    ELSE None

\* the token tk is a plain reference whose value is a string free of "$"
SplicesText(tk, I, D) ==
    /\ tk[2] = "("
    /\ ~HasDot(tk)
    /\ IsStr(PlainValue(tk, I, D))
    /\ \A i \in 1..Len(PlainValue(tk, I, D).s) : PlainValue(tk, I, D).s[i] # "$"

\* s with its leftmost token replaced, at that place alone, by the token's value,
\* again and again until no token is left
RECURSIVE Spliced(_, _, _)
Spliced(s, I, D) ==
    IF ~Search(s).found THEN s
    ELSE Spliced(SubSeq(s, 1, Search(s).at - 1)
                     \o PlainValue(Search(s).key, I, D).s
                     \o SubSeq(s, Search(s).at + Len(Search(s).key), Len(s)), I, D)

\* C12: a string whose tokens are plain references that each resolve to a string
\* expands to the same string with every token replaced by its value, leftmost
\* first, and every other character unchanged.
C12_StringSplicing ==
    (op = "tplsub" /\ IsStr(in_value) /\ ScopesAreDicts
     /\ TokensIn(in_value.s) # {}
     /\ \A tk \in TokensIn(in_value.s) : SplicesText(tk, in_instance, in_default))
        => /\ out_status = "ok"
           /\ out_value = Str(Spliced(in_value.s, in_instance, in_default))

\* C12 witness: a string of two tokens with text before, between and after them
\* has been expanded, one token from each scope.
C12_Witness ==
    /\ op = "tplsub"
    /\ in_value = Str(<<"a">> \o Token("(", <<"x">>) \o <<"b">> \o Token("(", <<"y">>) \o <<"c">>)
    /\ in_instance = InstanceA
    /\ in_default = DefaultA
    /\ out_value = Str(<<"a", "v", "b", "z", "c">>)

\* the leftmost token of the string in_value is a plain reference to a key that
\* neither scope holds
FirstTokenUnresolvable ==
    /\ IsStr(in_value) /\ ScopesAreDicts
    /\ Search(in_value.s).found
    /\ Search(in_value.s).key[2] = "("
    /\ ~HasDot(Search(in_value.s).key)
    /\ PlainValue(Search(in_value.s).key, in_instance, in_default) = None
    /\ ~Has(in_instance, Payload(Search(in_value.s).key))
    /\ ~Has(in_default, Payload(Search(in_value.s).key))

\* C13: when a plain reference embedded in a string resolves to None, nothing is
\* put in its place and the expansion of the string completes without an error,
\* keeping the text around the token: the result is a string that begins with the
\* text up to and including the unresolved token.
C13_UnresolvedKeepsText ==
    (op = "tplsub" /\ FirstTokenUnresolvable)
        => /\ out_status = "ok"
           /\ IsStr(out_value)
           /\ Len(out_value.s) >= Search(in_value.s).at + Len(Search(in_value.s).key) - 1
           /\ SubSeq(out_value.s, 1, Search(in_value.s).at + Len(Search(in_value.s).key) - 1)
                  = SubSeq(in_value.s, 1, Search(in_value.s).at + Len(Search(in_value.s).key) - 1)

\* the value is itself a token: a reference or a function-call dict
TokenValued(v) == type_of(v).kind \notin {"None", "bare"}

\* what the Expander makes of the value v with the scopes of the call
Expanded(v) ==
    tplsub(v, Heap(in_instance, in_default, None, None, builtin[eng], <<>>), MaxDepth)

\* C14: a list reference whose value in the instance scope is itself a token, the
\* default scope not holding the key, resolves to what that value expands to: the
\* value is expanded first and the expanded list takes part in the merge.
C14_TokenValuedExpandedThenMerged ==
    (op \in {"do_sub", "tplsub"} /\ IsStr(in_value) /\ type_of(in_value).kind = "list"
     /\ in_value.s = Token("[", RefKey) /\ ScopesAreDicts
     /\ HasKey(in_instance, RefKey) /\ ~HasKey(in_default, RefKey)
     /\ TokenValued(Get(in_instance, RefKey))
     /\ Expanded(Get(in_instance, RefKey)).st = "ok"
     /\ IsList(Expanded(Get(in_instance, RefKey)).v))
        => /\ out_status = "ok"
           /\ out_value = Expanded(Get(in_instance, RefKey)).v

\* do_sub was given a mapping reference $<MapName.key...> whose path can be parsed
MapRef == op = "do_sub" /\ out_kind = "map" /\ ScopesAreDicts /\ PathParses(RefKey)

\* MapName, and what the descent along the path finds in a scope (None: nothing)
MapName == SplitDots(RefKey)[1]

Descent(scope) == PathSearch(scope, SplitDots(RefKey), 1)

\* C15 as stated: when MapName is in both scopes the default scope's map is the one
\* descended into; the instance scope's map is used only when the default scope
\* does not hold MapName.
C15_MappingDefaultFirst ==
    MapRef
        => /\ HasKey(in_default, MapName) => out_value = Descent(in_default)
           /\ (~HasKey(in_default, MapName) /\ HasKey(in_instance, MapName))
                  => out_value = Descent(in_instance)

\* C15: a mapping reference resolves to what the descent finds in the instance
\* scope when that is a non-empty value, else to what it finds in the default
\* scope when that is a non-empty value, else to None.
C15_MappingInstanceFirst ==
    MapRef
        => /\ out_status = "ok"
           /\ out_value = IF ~Falsy(Descent(in_instance)) THEN Descent(in_instance)
                          ELSE IF ~Falsy(Descent(in_default)) THEN Descent(in_default)
                          ELSE None

\* C15 witness: a mapping reference whose map both scopes hold, with different
\* values at the path, has been resolved.
C15_Witness ==
    /\ MapRef
    /\ HasKey(in_instance, MapName) /\ HasKey(in_default, MapName)
    /\ ~Falsy(Descent(in_instance)) /\ ~Falsy(Descent(in_default))
    /\ Descent(in_instance) # Descent(in_default)
    /\ out_value = Descent(in_instance)

\* the leftmost token of the string in_value is a mapping reference whose descent
\* fails in both scopes: a key is missing at some level, or MapName itself
DescentFails ==
    /\ IsStr(in_value) /\ ScopesAreDicts
    /\ type_of(in_value).kind = "map"
    /\ PathParses(RefKey)
    /\ Descent(in_instance) = None
    /\ Descent(in_default) = None

\* C16 as stated: a mapping reference embedded in a string whose descent fails
\* raises the engine's resolution error and produces no value.
C16_MappingFailureRaises ==
    (op \in {"do_sub", "tplsub"} /\ DescentFails) => out_status = "IcsException"

\* C16: a mapping reference embedded in a string whose descent fails raises no
\* error: the resolver gives None, and the expansion of the string returns.
C16_MappingFailureGivesNone ==
    (op \in {"do_sub", "tplsub"} /\ DescentFails)
        => /\ out_status = "ok"
           /\ op = "do_sub" => out_value = None

\* C16 witness: a mapping reference whose map the instance scope holds, without
\* the key the path asks for, has been resolved.
C16_Witness ==
    /\ op = "do_sub"
    /\ DescentFails
    /\ HasKey(in_instance, MapName)
    /\ Len(SplitDots(RefKey)) = 2
    /\ ~HasKey(Get(in_instance, MapName), SplitDots(RefKey)[2])
    /\ out_value = None

\* in_value is {"$<Name>": [a1, ..., an]} with n >= least literal arguments (strings
\* without a token, and numbers), and Name is registered as the callable fid
LiteralCall(name, fid, least) ==
    /\ op = "tplsub" /\ ScopesAreDicts
    /\ IsDict(in_value) /\ Len(in_value.k) = 1
    /\ in_value.k[1] = Token("<", name)
    /\ <<name, fid>> \in builtin[eng]
    /\ IsList(in_value.c[1]) /\ Len(in_value.c[1].c) >= least
    /\ \A i \in 1..Len(in_value.c[1].c) :
           \/ in_value.c[1].c[i].t = "int"
           \/ IsStr(in_value.c[1].c[i]) /\ ~Search(in_value.c[1].c[i].s).found

\* the arguments of the Mapping call: map_name and the keys
MappingName == in_value.c[1].c[1].s

MappingKeys == Tail(in_value.c[1].c)

\* scope[map_name][k1]...[kn], or the failure of one of the subscripts
Subscripted(scope) == Reduce(Get(scope, MappingName), MappingKeys, 1)

\* C17 as stated: Mapping(map_name, k1, ..., kn) returns scope[map_name][k1]...[kn]
\* from the scope that holds map_name, and signals a failure when a key is missing
\* on the way or when neither scope holds map_name.
C17_MappingAbsentRaises ==
    LiteralCall(NameMapping, "func_mapping", 1)
        => IF HasKey(in_default, MappingName) \/ HasKey(in_instance, MappingName)
           THEN \E scope \in {in_default, in_instance} :
                    /\ HasKey(scope, MappingName)
                    /\ IF Subscripted(scope).st = "ok"
                       THEN out_status = "ok" /\ out_value = Subscripted(scope).v
                       ELSE out_status = "IcsException"
           ELSE out_status = "IcsException"

\* C17: Mapping(map_name, k1, ..., kn) returns scope[map_name][k1]...[kn], scope
\* being the default scope when it holds map_name and else the instance scope when
\* that holds it; it raises the engine's error when a key is missing on the way,
\* and returns None when neither scope holds map_name.
C17_MappingBuiltin ==
    LiteralCall(NameMapping, "func_mapping", 1)
        => IF HasKey(in_default, MappingName)
           THEN IF Subscripted(in_default).st = "ok"
                THEN out_status = "ok" /\ out_value = Subscripted(in_default).v
                ELSE out_status = "IcsException"
           ELSE IF HasKey(in_instance, MappingName)
           THEN IF Subscripted(in_instance).st = "ok"
                THEN out_status = "ok" /\ out_value = Subscripted(in_instance).v
                ELSE out_status = "IcsException"
           ELSE out_status = "ok" /\ out_value = None

\* C17 witness: Mapping has been called for a map that both scopes hold and has
\* returned the default scope's value.
C17_Witness ==
    /\ LiteralCall(NameMapping, "func_mapping", 1)
    /\ HasKey(in_default, MappingName) /\ HasKey(in_instance, MappingName)
    /\ Len(MappingKeys) = 1
    /\ Subscripted(in_default).st = "ok"
    /\ Subscripted(in_instance).st = "ok"
    /\ Subscripted(in_default).v # Subscripted(in_instance).v
    /\ Len(calls) = 1
    /\ out_value = Subscripted(in_default).v

\* the expansion of a one-entry function-call dict has called the callable fid,
\* once, with an index (an int or a numeric string) and a list
SelectionCall(fid) ==
    /\ op = "tplsub" /\ ScopesAreDicts
    /\ IsDict(in_value) /\ Len(in_value.k) = 1
    /\ Len(calls) = 1
    /\ calls[1].fid = fid
    /\ calls[1].func = type_of(in_value).key
    /\ calls[1].mode = "pos"
    /\ Len(calls[1].params.c) = 2
    /\ IsList(calls[1].params.c[2])
    /\ \/ calls[1].params.c[1].t = "int"
       \/ IsStr(calls[1].params.c[1]) /\ IsIntLiteral(calls[1].params.c[1].s)

\* the index and the list the callable was given
GivenIndex ==
    IF calls[1].params.c[1].t = "int" THEN calls[1].params.c[1].n
    ELSE ParseInt(calls[1].params.c[1].s)

GivenList == calls[1].params.c[2].c

\* C18: Select(i, L) returns the i-th element of L, counting from 1, for every i in
\* 1..len(L), and fails with an error for every other i, 0 and negative ones
\* included.
C18_SelectOneBased ==
    SelectionCall("func_select")
        => IF 1 <= GivenIndex /\ GivenIndex <= Len(GivenList)
           THEN out_status = "ok" /\ out_value = GivenList[GivenIndex]
           ELSE out_status # "ok"

\* C19: CSelect(i, L) returns, for every non-empty list L and every integer i given
\* as an int or a numeric string, the element of L at the 0-based position
\* (i - 1) mod len(L): no index is out of range.
C19_CSelectCircular ==
    (SelectionCall("func_circle_select") /\ GivenList # <<>>)
        => /\ out_status = "ok"
           /\ out_value = GivenList[((GivenIndex - 1) % Len(GivenList)) + 1]

\* C19 witness: CSelect has been called with the index len(L) + 1 and has returned
\* the first element of L.
C19_Witness ==
    /\ SelectionCall("func_circle_select")
    /\ Len(GivenList) = 3
    /\ GivenIndex = 4
    /\ out_status = "ok"
    /\ out_value = GivenList[1]

\* in_value is a one-entry dict whose key is $<Name>, and the engine the call was
\* made on has no function registered as Name
UnknownCall ==
    /\ op = "tplsub"
    /\ IsDict(in_value) /\ IsFuncCallDict(in_value)
    /\ ~Registered(builtin[eng], type_of(in_value).key)

\* C20: expanding a one-entry dict whose key names a function that is not in the
\* registry raises the engine's error, whatever the argument expression is, and
\* invokes no callable.
C20_UnknownFunctionRaises ==
    UnknownCall => (out_status = "IcsException" /\ calls = <<>>)

\* C20 witness: a call of an unregistered function whose argument is itself a call
\* of a registered one has raised the error.
C20_Witness ==
    /\ UnknownCall
    /\ ScopesAreDicts
    /\ IsDict(in_value.c[1])
    /\ type_of(in_value.c[1]).kind = "func"
    /\ Registered(builtin[eng], type_of(in_value.c[1]).key)
    /\ out_status = "IcsException"
    /\ calls = <<>>

\* C21: every way an expansion can fail is reported to the caller as the one
\* engine exception, IcsException: no other exception type escapes tplsub.
C21_SingleErrorKind ==
    op \in {"tplsub", "reexpand"} => out_status \in {"ok", "IcsException"}

\* C22: when tplsub is called with a document and no scopes, the document serves as
\* the instance scope: with every reference of the document resolvable against the
\* document's own top-level keys, the call returns what it returns when the
\* document is given as the instance scope next to an empty default scope.
C22_SelfReferenceBootstrap ==
    (op = "tplsub" /\ Bootstrapped /\ IsDict(in_value)
     /\ RefsResolvable(in_value, in_value, None))
        => /\ out_status = "ok"
           /\ out_value = tplsub(in_value, Heap(in_value, Empty, None, None, builtin[eng], <<>>),
                                 MaxDepth).v

\* the names a registry can hold
AllNames == {p[1] : p \in default_builtin} \cup RegNames \cup CustomNames

\* C23 as stated: the registry is process-wide: once a name is registered, every
\* engine object resolves it to the registered callable.
C23_RegistryProcessWide ==
    \A e1 \in Engines, e2 \in Engines, name \in AllNames :
        Registered(builtin[e1], name)
            => /\ Registered(builtin[e2], name)
               /\ Callable(builtin[e2], name) = Callable(builtin[e1], name)

\* C23: the registry belongs to the engine object: register_builtin on an engine
\* changes the registry of that engine alone, and an expansion resolves a function
\* name in the registry of the engine that performs it, raising the unknown-function
\* error when that engine has no such name.
C23_RegistryPerEngine ==
    /\ [](op = "tplsub"
             => /\ \A i \in 1..Len(calls) :
                       /\ Registered(builtin[eng], calls[i].func)
                       /\ calls[i].fid = Callable(builtin[eng], calls[i].func)
                /\ (IsDict(in_value) /\ IsFuncCallDict(in_value)
                    /\ ~Registered(builtin[eng], type_of(in_value).key))
                       => out_status = "IcsException")
    /\ [][\A e \in Engines :
              builtin'[e] # builtin[e] => (op' = "register_builtin" /\ eng' = e)]_vars

\* C23 witness: Echo is registered on one engine, and the other engine has raised
\* the unknown-function error for a call of Echo.
C23_Witness ==
    /\ op = "tplsub"
    /\ eng = 2
    /\ in_value = EchoCall(Str(Token("(", <<"x">>)))
    /\ Registered(builtin[1], <<"E", "c", "h", "o">>)
    /\ ~Registered(builtin[2], <<"E", "c", "h", "o">>)
    /\ out_status = "IcsException"

\* C24: the registry only grows: every built-in name of the construction and every
\* name registered since is in the registry after any sequence of registrations and
\* expansions; a registration leaves exactly one callable under its name; nothing
\* removes a name.
C24_RegistryOnlyGrows ==
    /\ [](\A e \in Engines, p \in default_builtin : Registered(builtin[e], p[1]))
    /\ [][\A e \in Engines, name \in AllNames :
              Registered(builtin[e], name) => Registered(builtin'[e], name)]_vars
    /\ [][op' = "register_builtin"
              => Cardinality({p \in builtin'[eng'] : p[1] = in_value'.s}) = 1]_vars

\* C24 witness: an engine on which Echo was registered and the callable of Join
\* was replaced has expanded a call of Join with the replacement.
C24_Witness ==
    /\ op = "tplsub"
    /\ Registered(builtin[eng], <<"E", "c", "h", "o">>)
    /\ Callable(builtin[eng], NameJoin) = "user_echo"
    /\ in_value = JoinCall(Str(<<"-">>), Str(Token("[", <<"l">>)))
    /\ Len(calls) = 1
    /\ calls[1].fid = "user_echo"
    /\ out_status = "ok"

\* what thread t's call returns when no other call runs beside it
Alone(t) ==
    tplsub(threads[t].doc,
           Heap(threads[t].instance, threads[t].default, None, None,
                builtin[threads[t].eng], <<>>), MaxDepth)

\* C25: expansions of independent documents, each given scope objects of its own,
\* need no coordination: however the calls of two threads interleave, each returns
\* what it returns when it runs alone, calls of Mapping included.
C25_InterleavingKeepsResults ==
    \A t \in Threads :
        threads[t].pc = "done"
            => /\ threads[t].status = Alone(t).st
               /\ threads[t].value = Alone(t).v

\* the variable a token refers to: its payload, or MapName for a mapping reference
RefName(tk) == IF tk[2] = "<" THEN SplitDots(Payload(tk))[1] ELSE Payload(tk)

\* the variables the strings of the value v refer to, at any depth
RECURSIVE RefNames(_)
RefNames(v) ==
    IF IsStr(v) THEN {RefName(tk) : tk \in TokensIn(v.s)}
    ELSE UNION {RefNames(v.c[i]) : i \in 1..Len(v.c)}

ScopeKeys(scope) == IF IsDict(scope) THEN KeySet(scope) ELSE {}

\* the variables the value of the variable key refers to, in either scope
RefersTo(key, I, D) ==
    (IF Has(I, key) THEN RefNames(Get(I, key)) ELSE {})
        \cup (IF Has(D, key) THEN RefNames(Get(D, key)) ELSE {})

\* the variables reached from those of S in at most n steps
RECURSIVE Reached(_, _, _, _)
Reached(S, I, D, n) ==
    IF n = 0 THEN S
    ELSE Reached(S \cup UNION {RefersTo(key, I, D) : key \in S}, I, D, n - 1)

\* no variable's value refers, directly or through other variables, to the variable
Acyclic(I, D) ==
    \A key \in ScopeKeys(I) \cup ScopeKeys(D) :
        key \notin Reached(RefersTo(key, I, D), I, D,
                           Cardinality(ScopeKeys(I) \cup ScopeKeys(D)))

Compared == diff.op = "compare_dicts"

NamesOf(obj) == {obj.k[i] : i \in 1..Len(obj.k)}

OnlyIn(a, b) == NamesOf(a) \ NamesOf(b)

\* the names both objects have with values that differ
Differing(a, b) == {name \in NamesOf(a) \cap NamesOf(b) : ~PyEq(Get(a, name), Get(b, name))}

IsScalar(v) == v.t \in {"none", "int", "str"}

\* the entry {'---': old, '+++': new}
Change(old, new) == Dict(<<MINUS, PLUS>>, <<old, new>>)

\* result[sign] holds exactly the names in names, each with its value in obj
Section(result, sign, names, obj) ==
    IF names = {} THEN ~HasKey(result, sign)
    ELSE /\ HasKey(result, sign)
         /\ NamesOf(Get(result, sign)) = names
         /\ \A name \in names : PyEq(Get(Get(result, sign), name), Get(obj, name))

\* C27: compare_dicts(old, new) returns an empty result when the two JSON objects are
\* equal (nested empty objects included), and otherwise an entry only for the keys
\* whose values differ: the keys only in new under '+++', the keys only in old under
\* '---', a changed scalar as {'---': old, '+++': new} under its own key.
C27_DiffExact ==
    Compared =>
        /\ diff.status = "ok"
        /\ IsDict(diff.result)
        /\ PyEq(diff.old, diff.new) => diff.result = Dict(<<>>, <<>>)
        /\ NamesOf(diff.result) \ {PLUS, MINUS} = Differing(diff.old, diff.new)
        /\ Section(diff.result, PLUS, OnlyIn(diff.new, diff.old), diff.new)
        /\ Section(diff.result, MINUS, OnlyIn(diff.old, diff.new), diff.old)
        /\ \A name \in Differing(diff.old, diff.new) :
               (IsScalar(Get(diff.old, name)) /\ IsScalar(Get(diff.new, name)))
                   => PyEq(Get(diff.result, name),
                           Change(Get(diff.old, name), Get(diff.new, name)))

\* the names both objects have with values of different types
Retyped(a, b) == {name \in NamesOf(a) \cap NamesOf(b) : Get(a, name).t # Get(b, name).t}

\* the positions two arrays share with elements of different types
RetypedAt(a, b) == {idx \in 1..Len(a.c) : idx <= Len(b.c) /\ a.c[idx].t # b.c[idx].t}

\* the names both objects have with arrays as values
Arrays(a, b) == {name \in NamesOf(a) \cap NamesOf(b) : IsList(Get(a, name)) /\ IsList(Get(b, name))}

\* C28: where the old and the new value at the same key or array index have different
\* types, the entry for that position is {'---': old, '+++': new}, whatever the type of
\* the old value.
C28_TypeChangeEntry ==
    Compared =>
        /\ \A name \in Retyped(diff.old, diff.new) :
               /\ diff.status = "ok"
               /\ HasKey(diff.result, name)
               /\ PyEq(Get(diff.result, name), Change(Get(diff.old, name), Get(diff.new, name)))
        /\ \A name \in Arrays(diff.old, diff.new) :
               \A idx \in RetypedAt(Get(diff.old, name), Get(diff.new, name)) :
                   /\ diff.status = "ok"
                   /\ HasKey(diff.result, name)
                   /\ HasKey(Get(diff.result, name), IdxKey(idx - 1))
                   /\ PyEq(Get(Get(diff.result, name), IdxKey(idx - 1)),
                           Change(Get(diff.old, name).c[idx], Get(diff.new, name).c[idx]))

\* the positions of the invocations of f, and of the sleeps, in what the wrapper did
CallsAt == {j \in 1..Len(retry.log) : retry.log[j].e = "call"}

SleepsAt == {j \in 1..Len(retry.log) : retry.log[j].e = "sleep"}

\* the invocation at position j raised an exception the wrapper catches
Failed(j) == retry.log[j].kind = "raise" /\ retry.log[j].what \in Caught

\* the wrapper has returned or raised
Finished == retry.pc \in {"returned", "raised"}

LastCall == CHOOSE j \in CallsAt : \A k \in CallsAt : k <= j

\* C29: a function wrapped by Retry(tries=n), n >= 1, is invoked at most n times; the
\* wrapper gives the outcome of the first invocation that raises no caught exception
\* and invokes nothing after it; when all n invocations raise it raises the last
\* exception; it sleeps between consecutive attempts and not after the final one.
C29_RetryBounded ==
    retry.tries >= 1 =>
        /\ Cardinality(CallsAt) <= retry.tries
        /\ \A j \in CallsAt : j # LastCall => Failed(j)
        /\ \A j \in 1..Len(retry.log) : (j \in CallsAt) <=> (j % 2 = 1)
        /\ \A j \in SleepsAt :
               retry.log[j].n = IF retry.interval # 0 THEN retry.interval
                                ELSE 2 ^ retry.log[j - 1].n
        /\ (Finished \/ retry.i = retry.tries) => Len(retry.log) % 2 = 1
        /\ Finished =>
               /\ retry.value = retry.log[LastCall].what
               /\ retry.outcome = retry.log[LastCall].kind
               /\ Failed(LastCall) => Cardinality(CallsAt) = retry.tries

\* three tries, all failed: three invocations, two sleeps, the last exception raised
C29_Witness ==
    /\ retry.pc = "raised"
    /\ retry.tries = 3
    /\ Cardinality(CallsAt) = 3
    /\ Cardinality(SleepsAt) = 2
    /\ \A j \in CallsAt : Failed(j)
    /\ retry.log[1].what # retry.log[5].what

\* the positions of the requests cmd sent for the launch configuration name
SentAt(cmd, name) ==
    {j \in 1..Len(aws.requests) : aws.requests[j].cmd = cmd /\ aws.requests[j].name = name}

\* the positions at which a launch configuration was created / the group was modified
CreatedAt ==
    {j \in 1..Len(aws.requests) :
        aws.requests[j].cmd = "CreateLaunchConfiguration" /\ aws.requests[j].ok}

ModifiedAt ==
    {j \in 1..Len(aws.requests) :
        aws.requests[j].cmd = "UpdateAutoScalingGroup" /\ aws.requests[j].ok}

====
